---------------------------- MODULE Spec2Model ----------------------------
(***************************************************************************)
(* A model of two parts of the Tendis server:                              *)
(*                                                                         *)
(*   - the replica side of replication, replication/spov.cpp: the periodic *)
(*     scheduler tick (slaveSyncRoutine), the physical fullsync            *)
(*     (slaveStartFullsync), the incrsync handshake (slaveChkSyncStatus)   *)
(*     and the binlog apply (applyBinlogs / applySingleTxn);               *)
(*   - the write path of the string commands, commands/kv.cpp: setGeneric  *)
(*     and the retry loops of SET, SETNX, SETEX and the runGeneral family. *)
(*                                                                         *)
(* One shard is modelled.  ReplSpec is the replication state machine,      *)
(* KvSpec the command engine; each leaves the other part's variables       *)
(* alone.                                                                  *)
(***************************************************************************)
EXTENDS Integers, Sequences, FiniteSets, TLC

VARIABLES
    syncMeta,       \* _syncMeta[storeId]: [replState, binlogId, syncFromHost]
    persistMeta,    \* the durably written copy of the meta
    syncStatus,     \* _syncStatus[storeId]: [isRunning, sessionId, lastSyncTime, nextSchedTime]
    tick,           \* the scheduler thread inside slaveSyncRoutine
    rstore,         \* the replica store: [running]
    backup,         \* store->backupDir(): [exists, files]
    applied,        \* txnIds committed by applySingleTxn since the last clear()
    appl,           \* the threads calling applyBinlogs
    feed,           \* the leader's cursor of each incrsync session
    nextSession,    \* the network layer's next session id
    calls,          \* applyBinlogs calls started so far
    sclock,         \* SCLOCK::now(), in seconds
    halted          \* the process was ended by LOG(FATAL) or a failed INVARIANT

replVars == <<syncMeta, persistMeta, syncStatus, tick, rstore, backup, applied,
              appl, feed, nextSession, calls, sclock, halted>>

---------------------------------------------------------------------------
(* Bounds of the replication model. *)

\* the clock stops advancing here
MaxClock == 15
\* applyBinlogs calls over one run
MaxCalls == 2
\* transactions in one applyBinlogs map
MaxBatch == 2

---------------------------------------------------------------------------
(* Program constants. *)

\* Transaction::TXNID_UNINITED
TXNID_UNINITED == 0
\* Transaction::MAX_VALID_TXNID: stands for the largest valid id; TLC's
\* integers are 32 bit, so a value no id of the model reaches is used.
MAX_VALID_TXNID == 1000
\* std::numeric_limits<uint64_t>::max(), "no session": a value no issued
\* session id reaches.
UINT64_MAX == 9999
\* slaveChkSyncStatus: lastSyncTime + 10 s <= now
RECONN_SECS == 10
\* seconds one AdvanceClock step adds: half the reconnect period
ClockStep == RECONN_SECS \div 2
\* slaveSyncRoutine: the three reschedule delays
SCHED_NOHOST_SECS == 1
SCHED_FULLSYNC_SECS == 3
SCHED_INCRSYNC_SECS == 10
\* slaveStartFullsync: size_t(20ULL*1024*1024)
BATCH_BYTES == 20 * 1024 * 1024

REPL_DISCONNECTED == "REPL_DISCONNECTED"
REPL_CONNECT == "REPL_CONNECT"
REPL_TRANSFER == "REPL_TRANSFER"
REPL_CONNECTED == "REPL_CONNECTED"

---------------------------------------------------------------------------
(* The environment's inputs. *)

\* The session ids the network layer hands out, in this order; one thread
\* per incrsync session delivers that session's binlogs.
Appliers == {1, 2}
FileNames == {"f1", "f2"}

\* Lines the leader may answer to FULLSYNC: the empty line, an error line,
\* text that is no JSON, JSON that is no object, an object with a value that
\* is no uint64, and three well-formed file lists.
EmptyFlist == [n \in {} |-> 0]
FullsyncReplies ==
    { [kind |-> "empty",    flist |-> EmptyFlist],
      [kind |-> "minus",    flist |-> EmptyFlist],
      [kind |-> "badjson",  flist |-> EmptyFlist],
      [kind |-> "notobj",   flist |-> EmptyFlist],
      [kind |-> "notuint",  flist |-> EmptyFlist],
      [kind |-> "flist",    flist |-> EmptyFlist],
      [kind |-> "flist",    flist |-> [n \in {"f1"} |-> 1]],
      [kind |-> "flist",    flist |-> [n \in {"f1", "f2"} |->
                                          IF n = "f1" THEN 0 ELSE BATCH_BYTES + 1]] }

\* Lines the leader may answer to INCRSYNC.
IncrsyncReplies == {"empty", "minus", "plus"}

\* What store->restart(true) may return: the largest binlog id of the
\* adopted backup, or TXNID_UNINITED for a backup without binlog.
RestartValues == {TXNID_UNINITED, 3}

\* Statuses applySingleTxn may return.
ApplyErrors == {"ERR_COMMIT_RETRY", "ERR_INTERNAL", "ERR_DECODE"}

Min(a, b) == IF a <= b THEN a ELSE b


---------------------------------------------------------------------------
(* Replica metadata: changeReplState / changeReplStateInLock. *)

Meta(state, binlogId, host) ==
    [replState |-> state, binlogId |-> binlogId, syncFromHost |-> host]

\* the in-memory copy is replaced; the durable copy only when persist is set
ChangeReplState(meta, persist) ==
    /\ syncMeta' = meta
    /\ persistMeta' = IF persist THEN meta ELSE persistMeta

---------------------------------------------------------------------------
(* The scheduler thread. *)

TickIdle ==
    [pc |-> "idle", snap |-> Meta(REPL_CONNECT, TXNID_UNINITED, ""),
     nextSched |-> 0, guardSet |-> FALSE, rollback |-> FALSE,
     flist |-> EmptyFlist, finished |-> {}, cur |-> "", remain |-> 0,
     replyKind |-> "none", okSent |-> FALSE, restartId |-> TXNID_UNINITED,
     sid |-> UINT64_MAX,
     fsEnd |-> "none", chkEnd |-> "none"]

\* The scheduler (the caller of slaveSyncRoutine) starts a tick of a shard
\* that is not running and whose nextSchedTime has come, and marks it running.
TickStart ==
    /\ ~halted
    /\ tick.pc = "idle"
    /\ ~syncStatus.isRunning
    /\ sclock >= syncStatus.nextSchedTime
    /\ syncStatus' = [syncStatus EXCEPT !.isRunning = TRUE]
    /\ tick' = [TickIdle EXCEPT !.pc = "routine"]
    /\ UNCHANGED <<syncMeta, persistMeta, rstore, backup, applied, appl, feed,
                   nextSession, calls, sclock, halted>>

\* slaveSyncRoutine up to the dispatch on replState.
RoutineEnter ==
    /\ ~halted
    /\ tick.pc = "routine"
    /\ LET t == [tick EXCEPT !.nextSched = sclock, !.snap = syncMeta]
       IN  IF syncMeta.syncFromHost = ""
           THEN /\ tick' = [t EXCEPT !.pc = "exit",
                                     !.nextSched = sclock + SCHED_NOHOST_SECS]
                /\ halted' = halted
           ELSE IF syncMeta.replState = REPL_CONNECT
           THEN /\ tick' = [t EXCEPT !.pc = "fs_stop"]
                /\ halted' = halted
           ELSE IF syncMeta.replState = REPL_CONNECTED
           THEN /\ tick' = [t EXCEPT !.pc = "chk_reconn"]
                /\ halted' = halted
           ELSE /\ tick' = t
                /\ halted' = TRUE
    /\ UNCHANGED <<syncMeta, persistMeta, syncStatus, rstore, backup, applied,
                   appl, feed, nextSession, calls, sclock>>

\* The guard of slaveSyncRoutine: release the shard, publish nextSched and
\* notify_all, which wakes every thread blocked in applyBinlogs.
NotifyAll(a) ==
    [x \in Appliers |-> IF a[x].pc = "blocked" THEN [a[x] EXCEPT !.pc = "wait"]
                        ELSE a[x]]

RoutineExit ==
    /\ ~halted
    /\ tick.pc = "exit"
    /\ IF syncStatus.isRunning
       THEN /\ syncStatus' = [syncStatus EXCEPT !.isRunning = FALSE,
                                                !.nextSchedTime = tick.nextSched]
            /\ appl' = NotifyAll(appl)
            /\ tick' = [tick EXCEPT !.pc = "idle"]
            /\ halted' = halted
       ELSE /\ halted' = TRUE
            /\ UNCHANGED <<syncStatus, appl, tick>>
    /\ UNCHANGED <<syncMeta, persistMeta, rstore, backup, applied, feed,
                   nextSession, calls, sclock>>

---------------------------------------------------------------------------
(* slaveStartFullsync.  tick.fsEnd records how the call ended: "none" while *)
(* it has not, "done" after a complete fullsync, else the aborting step.    *)

replRest == <<syncStatus, appl, feed, nextSession, calls, sclock>>

\* an early return of slaveStartFullsync at the step named by `why`
FsAbort(t, why) == [t EXCEPT !.pc = "fs_ret", !.fsEnd = why]

\* 1) store->stop(): a failure (uncanceled transactions) returns at once
FsStop ==
    /\ ~halted
    /\ tick.pc = "fs_stop"
    /\ \E ok \in BOOLEAN :
         IF ok
         THEN /\ rstore' = [rstore EXCEPT !.running = FALSE]
              /\ tick' = [tick EXCEPT !.pc = "fs_clear"]
         ELSE /\ rstore' = rstore
              /\ tick' = FsAbort(tick, "stop")
    /\ UNCHANGED <<syncMeta, persistMeta, backup, applied, halted>>
    /\ UNCHANGED replRest

\* store->clear(): the data directory is emptied; a failure is fatal
FsClear ==
    /\ ~halted
    /\ tick.pc = "fs_clear"
    /\ \E ok \in BOOLEAN :
         IF ok
         THEN /\ applied' = <<>>
              /\ tick' = [tick EXCEPT !.pc = "fs_client"]
              /\ halted' = halted
         ELSE /\ halted' = TRUE
              /\ UNCHANGED <<applied, tick>>
    /\ UNCHANGED <<syncMeta, persistMeta, rstore, backup>>
    /\ UNCHANGED replRest

\* 2) createClient: no client returns; 3) a client arms the rollback guard
FsClient ==
    /\ ~halted
    /\ tick.pc = "fs_client"
    /\ \E ok \in BOOLEAN :
         IF ok
         THEN tick' = [tick EXCEPT !.pc = "fs_req", !.guardSet = TRUE,
                                   !.rollback = TRUE]
         ELSE tick' = FsAbort(tick, "noclient")
    /\ UNCHANGED <<syncMeta, persistMeta, rstore, backup, applied, halted>>
    /\ UNCHANGED replRest

\* 4) "FULLSYNC <id>" is written and one line read: a read error or timeout,
\* an empty line or a line starting with '-' returns; any other line moves
\* the meta to {TRANSFER, MAX_VALID_TXNID+1}, not persisted.
FsRequest ==
    /\ ~halted
    /\ tick.pc = "fs_req"
    /\ \/ /\ tick' = FsAbort(tick, "readerr")
          /\ UNCHANGED <<syncMeta, persistMeta>>
       \/ \E r \in FullsyncReplies :
            IF r.kind \in {"empty", "minus"}
            THEN /\ tick' = FsAbort(tick, "reply")
                 /\ UNCHANGED <<syncMeta, persistMeta>>
            ELSE /\ ChangeReplState(
                      Meta(REPL_TRANSFER, MAX_VALID_TXNID + 1,
                           tick.snap.syncFromHost), FALSE)
                 /\ tick' = [tick EXCEPT !.pc = "fs_parse",
                                         !.replyKind = r.kind,
                                         !.flist = r.flist]
    /\ UNCHANGED <<rstore, backup, applied, halted>>
    /\ UNCHANGED replRest

\* The line is parsed as a JSON object of uint64 values: a parse error, a
\* top level that is no object or a value that is no uint64 returns.  Then
\* the backup directory must not exist: if it does, or the test itself
\* fails, the process is ended.
FsParse ==
    /\ ~halted
    /\ tick.pc = "fs_parse"
    /\ IF tick.replyKind # "flist"
       THEN /\ tick' = FsAbort(tick, "parse")
            /\ halted' = halted
       ELSE \E ec \in BOOLEAN :
              IF ec \/ backup.exists
              THEN /\ halted' = TRUE
                   /\ tick' = tick
              ELSE /\ halted' = halted
                   /\ tick' = [tick EXCEPT !.pc = "fs_loop"]
    /\ UNCHANGED <<syncMeta, persistMeta, rstore, backup, applied>>
    /\ UNCHANGED replRest

\* the loop test with a break as soon as one file is finished
LoopDoneEarly(finished, flist) == finished # {}

\* while (true): finishedFiles.size() == flist.size() breaks the loop
LoopDone(finished, flist) == Cardinality(finished) = Cardinality(DOMAIN flist)

\* One round of the receive loop while files are missing: a file name is
\* read (an error returns; a name already finished or not listed is fatal),
\* its directory created and the file opened for writing (a failure returns).
FsNextFile ==
    /\ ~halted
    /\ tick.pc = "fs_loop"
    /\ ~LoopDone(tick.finished, tick.flist)
    /\ \/ /\ tick' = FsAbort(tick, "nameerr")
          /\ UNCHANGED <<backup, halted>>
       \/ \E name \in FileNames :
            IF name \in tick.finished \/ name \notin DOMAIN tick.flist
            THEN /\ halted' = TRUE
                 /\ UNCHANGED <<tick, backup>>
            ELSE /\ halted' = halted
                 /\ \E opened \in BOOLEAN :
                      IF opened
                      THEN /\ backup' =
                                [exists |-> TRUE,
                                 files |-> [n \in DOMAIN backup.files \cup {name} |->
                                             IF n = name THEN 0 ELSE backup.files[n]]]
                           /\ tick' = [tick EXCEPT !.pc = "fs_data", !.cur = name,
                                                   !.remain = tick.flist[name]]
                      ELSE /\ backup' = [backup EXCEPT !.exists = TRUE]
                           /\ tick' = FsAbort(tick, "open")
    /\ UNCHANGED <<syncMeta, persistMeta, rstore, applied>>
    /\ UNCHANGED replRest

\* The inner loop: batches of at most 20 MiB are read and written until
\* remain is 0; a failed read or a bad write returns.
FsData ==
    /\ ~halted
    /\ tick.pc = "fs_data"
    /\ IF tick.remain = 0
       THEN /\ tick' = [tick EXCEPT !.pc = "fs_loop", !.cur = "",
                                    !.finished = tick.finished \cup {tick.cur}]
            /\ backup' = backup
       ELSE LET batchSize == Min(tick.remain, BATCH_BYTES)
                t == [tick EXCEPT !.remain = tick.remain - batchSize]
            IN  \/ /\ tick' = FsAbort(t, "read")
                   /\ backup' = backup
                \/ /\ tick' = FsAbort(t, "write")
                   /\ backup' = backup
                \/ /\ tick' = t
                   /\ backup' = [backup EXCEPT
                                   !.files[tick.cur] = backup.files[tick.cur] + batchSize]
    /\ UNCHANGED <<syncMeta, persistMeta, rstore, applied, halted>>
    /\ UNCHANGED replRest

\* RollbackGuard with the rollback left out
RollbackGuardNever(t, cur) == cur

\* RollbackGuard that does not look at the rollback flag
RollbackGuardAlways(t, cur) ==
    IF t.guardSet
    THEN Meta(REPL_CONNECT, MAX_VALID_TXNID + 1, t.snap.syncFromHost)
    ELSE cur

\* The guard of slaveStartFullsync, run at every return after step 3:
\* while rollback is set the meta becomes the snapshot with
\* {CONNECT, MAX_VALID_TXNID+1}.  Its result is the in-memory meta.
RollbackGuard(t, cur) ==
    IF t.guardSet /\ t.rollback
    THEN Meta(REPL_CONNECT, MAX_VALID_TXNID + 1, t.snap.syncFromHost)
    ELSE cur

\* The loop is left: "+OK" is written; the result of writeLine is not looked
\* at.
FsSendOk ==
    /\ ~halted
    /\ tick.pc = "fs_loop"
    /\ LoopDone(tick.finished, tick.flist)
    /\ tick' = [tick EXCEPT !.pc = "fs_restart", !.okSent = TRUE]
    /\ UNCHANGED <<syncMeta, persistMeta, rstore, backup, applied, halted>>
    /\ UNCHANGED replRest

\* 5) the store is restarted on the backup (a failure is fatal) and the meta
\* becomes {CONNECTED, the id restart returned}, persisted; the id must not
\* be TXNID_UNINITED.
FsFinish ==
    /\ ~halted
    /\ tick.pc = "fs_restart"
    /\ \/ /\ halted' = TRUE
          /\ tick' = tick
          /\ UNCHANGED <<syncMeta, persistMeta, rstore, backup>>
       \/ \E v \in RestartValues :
            /\ rstore' = [rstore EXCEPT !.running = TRUE]
            /\ backup' = [exists |-> FALSE, files |-> EmptyFlist]
            /\ IF v = TXNID_UNINITED
               THEN /\ halted' = TRUE
                    /\ tick' = tick
                    /\ UNCHANGED <<syncMeta, persistMeta>>
               ELSE /\ halted' = halted
                    /\ ChangeReplState(
                         Meta(REPL_CONNECTED, v, tick.snap.syncFromHost), TRUE)
                    /\ tick' = [tick EXCEPT !.pc = "fs_ret",
                                            !.restartId = v,
                                            !.rollback = FALSE, !.fsEnd = "done"]
    /\ UNCHANGED applied
    /\ UNCHANGED replRest

\* slaveStartFullsync returns: its guard runs, then slaveSyncRoutine sets
\* the next tick 3 s after this one began.
FsReturn ==
    /\ ~halted
    /\ tick.pc = "fs_ret"
    /\ ChangeReplState(RollbackGuard(tick, syncMeta), FALSE)
    /\ tick' = [tick EXCEPT !.pc = "exit",
                            !.nextSched = tick.nextSched + SCHED_FULLSYNC_SECS]
    /\ UNCHANGED <<rstore, backup, applied, halted>>
    /\ UNCHANGED replRest

---------------------------------------------------------------------------
(* slaveChkSyncStatus.  tick.chkEnd records how the call ended. *)

ChkAbort(t, why) == [t EXCEPT !.pc = "chk_ret", !.chkEnd = why]

replStore == <<syncMeta, persistMeta, rstore, backup, applied>>

\* NeedReconn that looks at the session only
NeedReconnNoSession(status, now) == status.sessionId = UINT64_MAX

\* reconnect when there is no session or the last sync is 10 s old
NeedReconn(status, now) ==
    \/ status.sessionId = UINT64_MAX
    \/ status.lastSyncTime + RECONN_SECS <= now

ChkReconn ==
    /\ ~halted
    /\ tick.pc = "chk_reconn"
    /\ tick' = IF NeedReconn(syncStatus, sclock)
               THEN [tick EXCEPT !.pc = "chk_client"]
               ELSE ChkAbort(tick, "noreconn")
    /\ UNCHANGED replStore
    /\ UNCHANGED <<syncStatus, appl, feed, nextSession, calls, sclock, halted>>

\* a test of the reply that lets every line through
ReplyAcceptedAny(r) == TRUE

\* the reply goes on unless it is empty or does not start with '+'
ReplyAccepted(r) == r = "plus"

\* createClient, then "INCRSYNC <srcId> <id> <binlogId>" with the
\* snapshot's binlogId and one line read: an error, an empty line or a line
\* not starting with '+' returns.
ChkRequest ==
    /\ ~halted
    /\ tick.pc = "chk_client"
    /\ \/ tick' = ChkAbort(tick, "noclient")
       \/ tick' = ChkAbort(tick, "readerr")
       \/ \E r \in IncrsyncReplies :
            tick' = IF ReplyAccepted(r)
                    THEN [tick EXCEPT !.pc = "chk_pong", !.replyKind = r]
                    ELSE ChkAbort([tick EXCEPT !.replyKind = r], "reply")
    /\ UNCHANGED replStore
    /\ UNCHANGED <<syncStatus, appl, feed, nextSession, calls, sclock, halted>>

\* "+PONG" is written (a failure returns) and the client handed to the
\* network layer (a failure returns), which makes it session nextSession:
\* from here on the leader streams binlogs after the requested id on it.
ChkHandoff ==
    /\ ~halted
    /\ tick.pc = "chk_pong"
    /\ \/ /\ tick' = ChkAbort(tick, "pong")
          /\ UNCHANGED <<feed, nextSession>>
       \/ /\ tick' = ChkAbort(tick, "handoff")
          /\ UNCHANGED <<feed, nextSession>>
       \/ /\ nextSession \in Appliers
          /\ tick' = [tick EXCEPT !.pc = "chk_rec", !.sid = nextSession]
          /\ feed' = [i \in DOMAIN feed \cup {nextSession} |->
                        IF i = nextSession THEN tick.snap.binlogId ELSE feed[i]]
          /\ nextSession' = nextSession + 1
    /\ UNCHANGED replStore
    /\ UNCHANGED <<syncStatus, appl, calls, sclock, halted>>

\* the new session id and the time are recorded under the mutex
ChkRecord ==
    /\ ~halted
    /\ tick.pc = "chk_rec"
    /\ syncStatus' = [syncStatus EXCEPT !.sessionId = tick.sid,
                                        !.lastSyncTime = sclock]
    /\ tick' = ChkAbort(tick, "done")
    /\ UNCHANGED replStore
    /\ UNCHANGED <<appl, feed, nextSession, calls, sclock, halted>>

\* slaveChkSyncStatus returned: the next tick is 10 s after this one began
ChkReturn ==
    /\ ~halted
    /\ tick.pc = "chk_ret"
    /\ tick' = [tick EXCEPT !.pc = "exit",
                            !.nextSched = tick.nextSched + SCHED_INCRSYNC_SECS]
    /\ UNCHANGED replStore
    /\ UNCHANGED <<syncStatus, appl, feed, nextSession, calls, sclock, halted>>

---------------------------------------------------------------------------
(* applyBinlogs and applySingleTxn.  A call of session a carries the map   *)
(* of the n transactions base+1 .. base+n, base being the leader's cursor. *)

ApplIdle ==
    [pc |-> "idle", base |-> 0, n |-> 0, idx |-> 1, ret |-> "none",
     matched |-> FALSE, committed |-> 0, metaAt |-> Meta(REPL_CONNECT, 0, ""),
     sessAt |-> UINT64_MAX, appliedAt |-> 0, startSess |-> UINT64_MAX]

\* The leader sends the next transactions after its cursor on a session
\* the network layer holds; the session's thread calls applyBinlogs.
ApplyStart(a) ==
    /\ ~halted
    /\ a \in DOMAIN feed
    /\ appl[a].pc = "idle"
    /\ calls < MaxCalls
    /\ \E n \in 0..MaxBatch :
         appl' = [appl EXCEPT ![a] = [ApplIdle EXCEPT !.pc = "wait",
                                         !.base = feed[a], !.n = n,
                                         !.startSess = syncStatus.sessionId]]
    /\ calls' = calls + 1
    /\ UNCHANGED replStore
    /\ UNCHANGED <<syncStatus, tick, feed, nextSession, sclock, halted>>

\* a wait predicate that lets every thread through
WaitPredAlways(status) == TRUE

\* the predicate of _cv.wait in applyBinlogs
WaitPred(status) == ~status.isRunning

\* _cv.wait(lk, pred): with the mutex held the predicate is tested; the
\* thread claims the shard when it is idle and blocks otherwise.
ApplyWait(a) ==
    /\ ~halted
    /\ appl[a].pc = "wait"
    /\ IF WaitPred(syncStatus)
       THEN /\ syncStatus' = [syncStatus EXCEPT !.isRunning = TRUE]
            /\ appl' = [appl EXCEPT ![a].pc = "claimed"]
       ELSE /\ syncStatus' = syncStatus
            /\ appl' = [appl EXCEPT ![a].pc = "blocked"]
    /\ UNCHANGED replStore
    /\ UNCHANGED <<tick, feed, nextSession, calls, sclock, halted>>

\* a condition variable may wake a waiter without a notify
SpuriousWake(a) ==
    /\ ~halted
    /\ appl[a].pc = "blocked"
    /\ appl' = [appl EXCEPT ![a].pc = "wait"]
    /\ UNCHANGED replStore
    /\ UNCHANGED <<syncStatus, tick, feed, nextSession, calls, sclock, halted>>

\* IdMatch that accepts every session
IdMatchAlways(sessionId, status) == TRUE

\* the session test of applyBinlogs
IdMatch(sessionId, status) == sessionId = status.sessionId

ApplyCheck(a) ==
    /\ ~halted
    /\ appl[a].pc = "claimed"
    /\ LET c == [appl[a] EXCEPT !.metaAt = syncMeta,
                                !.sessAt = syncStatus.sessionId,
                                !.appliedAt = Len(applied)]
       IN  appl' = [appl EXCEPT ![a] =
                      IF IdMatch(a, syncStatus)
                      THEN [c EXCEPT !.pc = "apply", !.matched = TRUE]
                      ELSE [c EXCEPT !.pc = "guard", !.ret = "ERR_NOTFOUND"]]
    /\ UNCHANGED replStore
    /\ UNCHANGED <<syncStatus, tick, feed, nextSession, calls, sclock, halted>>

\* a walk over the map from its largest txnId down
TxnAtDescending(base, n, idx) == base + n + 1 - idx

\* the idx-th entry of the std::map base+1 .. base+n in the order of its keys
TxnAt(base, n, idx) == base + idx

\* applySingleTxn on the next transaction of the map, in ascending order:
\* it commits, or returns an error (createTransaction, a decode, setKV,
\* delKV or commit failed), which ends the call, or meets an unknown op,
\* which ends the process.  A stopped store gives no transaction.
ApplyTxn(a) ==
    /\ ~halted
    /\ appl[a].pc = "apply"
    /\ appl[a].idx <= appl[a].n
    /\ \/ /\ rstore.running
          /\ applied' = Append(applied,
                                TxnAt(appl[a].base, appl[a].n, appl[a].idx))
          /\ appl' = [appl EXCEPT ![a].idx = appl[a].idx + 1,
                                  ![a].committed = appl[a].committed + 1]
          /\ halted' = halted
       \/ \E e \in ApplyErrors :
            /\ appl' = [appl EXCEPT ![a].pc = "guard", ![a].ret = e]
            /\ UNCHANGED <<applied, halted>>
       \/ /\ halted' = TRUE
          /\ UNCHANGED <<applied, appl>>
    /\ UNCHANGED <<syncMeta, persistMeta, rstore, backup>>
    /\ UNCHANGED <<syncStatus, tick, feed, nextSession, calls, sclock>>

\* LastTxnId that names the map's first id
LastTxnIdFirst(base, n) == base + 1

\* LastTxnId that names the id after the map's last one
LastTxnIdPlusOne(base, n) == base + n + 1

\* binlogs.rbegin()->first: the largest txnId of the map base+1 .. base+n
LastTxnId(base, n) == base + n

\* After the loop: a non-empty map moves binlogId to its largest txnId,
\* persisted; the state must be CONNECTED.
ApplyUpdate(a) ==
    /\ ~halted
    /\ appl[a].pc = "apply"
    /\ appl[a].idx > appl[a].n
    /\ IF appl[a].n > 0
       THEN IF syncMeta.replState = REPL_CONNECTED
            THEN /\ ChangeReplState([syncMeta EXCEPT
                                       !.binlogId = LastTxnId(appl[a].base, appl[a].n)],
                                     TRUE)
                 /\ appl' = [appl EXCEPT ![a].pc = "guard", ![a].ret = "ERR_OK"]
                 /\ halted' = halted
            ELSE /\ halted' = TRUE
                 /\ UNCHANGED <<syncMeta, persistMeta, appl>>
       ELSE /\ appl' = [appl EXCEPT ![a].pc = "guard", ![a].ret = "ERR_OK"]
            /\ UNCHANGED <<syncMeta, persistMeta, halted>>
    /\ UNCHANGED <<rstore, backup, applied>>
    /\ UNCHANGED <<syncStatus, tick, feed, nextSession, calls, sclock>>

\* The guard of applyBinlogs: the shard is released and lastSyncTime set;
\* nothing is notified.  The leader moves its cursor past an accepted map
\* and sends the same transactions again after an error.
ApplyExit(a) ==
    /\ ~halted
    /\ appl[a].pc = "guard"
    /\ IF syncStatus.isRunning
       THEN /\ syncStatus' = [syncStatus EXCEPT !.isRunning = FALSE,
                                                !.lastSyncTime = sclock]
            /\ appl' = [appl EXCEPT ![a].pc = "idle"]
            /\ feed' = IF appl[a].ret = "ERR_OK"
                       THEN [feed EXCEPT ![a] = appl[a].base + appl[a].n]
                       ELSE feed
            /\ halted' = halted
       ELSE /\ halted' = TRUE
            /\ UNCHANGED <<syncStatus, appl, feed>>
    /\ UNCHANGED replStore
    /\ UNCHANGED <<tick, nextSession, calls, sclock>>

AdvanceClock ==
    /\ ~halted
    /\ sclock + ClockStep <= MaxClock
    /\ sclock' = sclock + ClockStep
    /\ UNCHANGED replStore
    /\ UNCHANGED <<syncStatus, tick, appl, feed, nextSession, calls, halted>>

---------------------------------------------------------------------------
(* The command engine of commands/kv.cpp: one shard's store, the per-key   *)
(* X lock, and client sessions that each run one command.                  *)

VARIABLES
    kv,         \* the store: key -> record, or Absent
    klock,      \* key -> the session that holds its X lock
    ks,         \* the client sessions, each inside one command
    now,        \* msSinceEpoch()
    ext,        \* writes committed by the binlog apply so far
    faults,     \* store errors returned so far
    khist,      \* key -> who committed the last write of it, and when
    kinit       \* the store as it was at the start

kvVars == <<kv, klock, ks, now, ext, faults, khist, kinit>>

VARIABLES
    atxn,       \* the applySingleTxn call under way
    astore      \* the replica store it writes: data and raw log records

applyVars == <<atxn, astore>>

VARIABLES
    bkv,        \* the keys a BITOP touches: its sources and its destination
    bop         \* the BITOP call: its arguments, its position and its locals

bitopVars == <<bkv, bop>>

VARIABLES
    mkv,        \* the keys MSET writes
    mlock,      \* the per-key X lock of those keys
    ms          \* per session: the MSET it runs, its position and its locals

msetVars == <<mkv, mlock, ms>>

vars == <<replVars, kvVars, applyVars, bitopVars, msetVars>>

\* what each part of the model leaves alone
nonReplVars == <<kvVars, applyVars, bitopVars, msetVars>>

nonKvVars == <<replVars, applyVars, bitopVars, msetVars>>

nonApplyVars == <<replVars, kvVars, bitopVars, msetVars>>

nonBitopVars == <<replVars, kvVars, applyVars, msetVars>>

nonMsetVars == <<replVars, kvVars, applyVars, bitopVars>>

(* Bounds of the command model. *)

\* the millisecond clock stops advancing here
MaxNow == 1000

\* writes the binlog apply may commit
MaxExt == 3

\* store errors other than a commit conflict
MaxFaults == 1

\* LLONG_MAX of the model's integers
I64Max == 3

(* Constants of the code. *)

RETRY_CNT == 3

MS_PER_SEC == 1000

MsStep == MS_PER_SEC

LLONG_MAX == I64Max

LLONG_MIN == (-I64Max) - 1

REDIS_SET_NO_FLAGS == {}

REDIS_SET_NX == "NX"

REDIS_SET_XX == "XX"

REDIS_SET_NXEX == "NXEX"

Keys == {"k"}

Sessions == {"s1", "s2"}

NoOwner == "none"

(* Strings and integers. *)

Digits == <<"0", "1", "2", "3", "4", "5", "6", "7", "8", "9">>

nat_to_string(n) ==
    IF n < 10 THEN Digits[n + 1]
    ELSE Digits[(n \div 10) + 1] \o Digits[(n % 10) + 1]

\* std::to_string of a long long
to_string(n) == IF n < 0 THEN "-" \o nat_to_string(-n) ELSE nat_to_string(n)

\* ::tendisplus::stoll succeeds on the decimal form of an int64
StollOk(s) == \E n \in LLONG_MIN..LLONG_MAX : to_string(n) = s

Stoll(s) == CHOOSE n \in LLONG_MIN..LLONG_MAX : to_string(n) = s

fmtOK == "+OK"

fmtNull == "$-1"

fmtOne == ":1"

fmtZero == ":0"

fmtBulk(v) == "$" \o v

fmtLongLong(n) == ":" \o to_string(n)

(* Records, statuses and transactions. *)

Absent == [present |-> FALSE, value |-> "", ttl |-> 0, cas |-> 0]

RecordValue(v, ttl) == [present |-> TRUE, value |-> v, ttl |-> ttl, cas |-> 0]

NoRes == [code |-> "none", reply |-> ""]

Ok(reply) == [code |-> "ERR_OK", reply |-> reply]

Err(c) == [code |-> c, reply |-> ""]

NoTxn == [open |-> FALSE, snap |-> Absent, dirty |-> FALSE, used |-> FALSE]

\* createTransaction: the snapshot is the store as of now
NewTxn(k) == [open |-> TRUE, snap |-> kv[k], dirty |-> FALSE, used |-> FALSE]

\* getKV(key, txn): the record at the transaction's snapshot
GetKV(txn) == IF txn.snap.present THEN Ok("") ELSE Err("ERR_NOTFOUND")

KsIdle ==
    [pc |-> "idle", op |-> "none", key |-> "k", val |-> "", flags |-> {},
     exGiven |-> FALSE, expire |-> 0, incr |-> "", ttl |-> 0,
     okReply |-> "", abortReply |-> "",
     txn |-> NoTxn, attempts |-> 0, errs |-> <<>>, pending |-> "none",
     rv |-> Absent, ret |-> NoRes, commits |-> 0, intruded |-> FALSE,
     tReply |-> 0, after |-> "none",
     cas |-> 0, old |-> Absent, last |-> "none", offset |-> 0]

(* The commands a client may send. *)

ArgValue(s) == IF s = "s1" THEN "a" ELSE "b"

ExArgs == {0, 1}

IncrArgs == {"-1", "2"}

SetArgs(s) ==
    { [op |-> "set", val |-> ArgValue(s), flags |-> REDIS_SET_NO_FLAGS,
       exGiven |-> TRUE, exArg |-> t, incr |-> ""] : t \in ExArgs }
    \cup
    { [op |-> "set", val |-> ArgValue(s), flags |-> f, exGiven |-> FALSE,
       exArg |-> 0, incr |-> ""] :
         f \in {REDIS_SET_NO_FLAGS, {REDIS_SET_NX}, {REDIS_SET_XX}} }

Commands(s) ==
    SetArgs(s)
    \cup { [op |-> "setnx", val |-> ArgValue(s), flags |-> {REDIS_SET_NX},
            exGiven |-> FALSE, exArg |-> 0, incr |-> ""] }
    \cup { [op |-> "setex", val |-> ArgValue(s), flags |-> REDIS_SET_NO_FLAGS,
            exGiven |-> TRUE, exArg |-> 1, incr |-> ""] }
    \cup { [op |-> "incrby", val |-> "", flags |-> REDIS_SET_NO_FLAGS,
            exGiven |-> FALSE, exArg |-> 0, incr |-> d] : d \in IncrArgs }
    \cup { [op |-> "get", val |-> "", flags |-> REDIS_SET_NO_FLAGS,
            exGiven |-> FALSE, exArg |-> 0, incr |-> ""] }

\* SetCommand::parse: EX seconds become milliseconds
ParseExpire(cmd) == IF cmd.exGiven THEN cmd.exArg * MS_PER_SEC ELSE 0

(* The store and the lock manager, as the commands use them. *)

\* getDbWithKeyLock(..., LOCK_X) returns once no other session holds the key
LockFreeAlways(k) == TRUE

LockFree(k) == klock[k] = NoOwner

\* the lock handle (expdb) is a local of the command: it goes with the return
Released(k, s) == [klock EXCEPT ![k] = IF @ = s THEN NoOwner ELSE @]

\* a session between taking the lock and its return
InWindow(r) == r.pc \in {"attempt", "sg_read", "sg_commit"}

\* A commit on key k by w: every other open transaction that read k can no
\* longer commit; byCmd tells a command's write from the other writers.
Touched(k, w, byCmd) ==
    [t \in Sessions |->
        IF t = w \/ ks[t].key # k THEN ks[t]
        ELSE [ks[t] EXCEPT !.txn.dirty = @ \/ ks[t].txn.open,
                           !.intruded = @ \/ (byCmd /\ InWindow(ks[t]))]]

\* Command::expireKeyIfNeeded: the status it reports for a record
ExpireStatus(r) ==
    IF ~r.present THEN "ERR_NOTFOUND"
    ELSE IF r.ttl # 0 /\ now >= r.ttl THEN "ERR_EXPIRED"
    ELSE "ERR_OK"

\* the command returns r: the reply is recorded and the lock handle dropped
Finish(r, res) ==
    [r EXCEPT !.pc = "done", !.ret = res, !.txn = NoTxn, !.pending = "none",
              !.rv = Absent, !.ttl = 0,
              !.tReply = IF r.op = "set" /\ r.exGiven THEN now ELSE 0]

(* setGeneric and the loops around it. *)

\* the early return of setGeneric
SetAbortsNever(flags, exists) == FALSE

SetAborts(flags, exists) ==
    \/ REDIS_SET_NX \in flags /\ exists
    \/ REDIS_SET_XX \in flags /\ ~exists
    \/ REDIS_SET_NXEX \in flags /\ exists

\* SetCommand::run after the attempts-th call of setGeneric returned code:
\* the first RETRY_CNT - 1 calls are inside the for loop, the last after it
SetCommandAfterExtra(attempts, code) ==
    IF code = "ERR_COMMIT_RETRY" THEN "retry" ELSE "return"

SetCommandAfter(attempts, code) ==
    IF attempts - 1 < RETRY_CNT - 1
    THEN IF code # "ERR_COMMIT_RETRY" THEN "return" ELSE "retry"
    ELSE "return"

\* the loop of SetNxCommand::run and of both runGeneral, i = attempts - 1
LoopAfterAnyError(attempts, code) ==
    IF code = "ERR_OK" THEN "return"
    ELSE IF attempts - 1 = RETRY_CNT - 1 THEN "return"
    ELSE "retry"

LoopAfter(attempts, code) ==
    IF code = "ERR_OK" THEN "return"
    ELSE IF code # "ERR_COMMIT_RETRY" THEN "return"
    ELSE IF attempts - 1 = RETRY_CNT - 1 THEN "return"
    ELSE "retry"

\* IncrDecrGeneral::sumIncr as [code, n]
SumIncrNoOld(old, incr) == [code |-> "ERR_OK", n |-> incr]

SumIncr(old, incr) ==
    IF old.present /\ ~StollOk(old.value)
    THEN [code |-> "ERR_DECODE", n |-> 0]
    ELSE LET sum == IF old.present THEN Stoll(old.value) ELSE 0
         IN  IF \/ incr < 0 /\ sum < 0 /\ incr < LLONG_MIN - sum
                \/ incr > 0 /\ sum > 0 /\ incr > LLONG_MAX - sum
             THEN [code |-> "ERR_OVERFLOW", n |-> 0]
             ELSE [code |-> "ERR_OK", n |-> sum + incr]

\* IncrbyCommand::newValueFromOld as [code, rv]
NewValueFromOld(arg, old) ==
    IF ~StollOk(arg) THEN [code |-> "ERR_DECODE", rv |-> Absent]
    ELSE LET newSum == SumIncr(old, Stoll(arg))
         IN  IF newSum.code # "ERR_OK"
             THEN [code |-> newSum.code, rv |-> Absent]
             ELSE [code |-> "ERR_OK",
                   rv |-> RecordValue(to_string(newSum.n),
                                      IF old.present THEN old.ttl ELSE 0)]

\* the record an increment by delta makes of old, as [code, rv]
IncrRecord(old, delta) ==
    LET newSum == SumIncr(old, delta)
    IN  IF newSum.code # "ERR_OK"
        THEN [code |-> newSum.code, rv |-> Absent]
        ELSE [code |-> "ERR_OK",
              rv |-> RecordValue(to_string(newSum.n),
                                 IF old.present THEN old.ttl ELSE 0)]

\* IncrCommand::newValueFromOld and DecrCommand::newValueFromOld
IncrNewValueFromOld(old) == IncrRecord(old, 1)

DecrNewValueFromOld(old) == IncrRecord(old, -1)

\* -eInc.value() on an int64_t: negating LLONG_MIN is a signed overflow,
\* so the build decides: the value wraps to LLONG_MIN, or the negation traps
Negated(n) == IF n = LLONG_MIN THEN {LLONG_MIN} ELSE {-n}

NegationTraps(n) == n = LLONG_MIN

\* DecrbyCommand::newValueFromOld: every [code, rv] it can produce
DecrbyNewValueFromOld(arg, old) ==
    IF ~StollOk(arg) THEN {[code |-> "ERR_DECODE", rv |-> Absent]}
    ELSE { IncrRecord(old, m) : m \in Negated(Stoll(arg)) }
         \cup (IF NegationTraps(Stoll(arg))
               THEN {[code |-> "SIGABRT", rv |-> Absent]} ELSE {})

\* ecas.value() + 1 on a uint64_t
CasSame(c) == c

CasNext(c) == (c + 1) % (UINT64_MAX + 1)

\* a RecordValue after setCas and setTtl
WithCas(rec, c, ttl) == [rec EXCEPT !.cas = c, !.ttl = ttl]

\* CasCommand::newValueFromOld as [code, rv]
CasNewValueFromOld(c, v, old) ==
    IF ~old.present
    THEN [code |-> "ERR_OK", rv |-> WithCas(RecordValue(v, 0), c, 0)]
    ELSE IF c # old.cas THEN [code |-> "ERR_CAS", rv |-> Absent]
    ELSE [code |-> "ERR_OK",
          rv |-> WithCas(RecordValue(v, 0), CasNext(c), old.ttl)]

\* AppendCommand::newValueFromOld as [code, rv]
AppendNewValueFromOld(v, old) ==
    [code |-> "ERR_OK",
     rv |-> RecordValue(IF old.present THEN old.value \o v ELSE v,
                        IF old.present THEN old.ttl ELSE 0)]

\* GetSetCommand::newValueFromOld as [code, rv]
GetSetNewValueFromOld(v, old) == [code |-> "ERR_OK", rv |-> RecordValue(v, 0)]

\* 2^32, the modulus of uint32_t: TLC's integers are 32 bit, so a small
\* power of two stands for it
UINT32_MOD == 8

\* 512*1024*1024, the largest string: a small length stands for it
MAX_STRING_SIZE == 4

\* the byte std::string::resize(n, 0) pads with
NUL == "@"

RECURSIVE Resized(_, _)
\* cat.resize(n, 0) for n >= cat.size()
Resized(cat, n) == IF Len(cat) >= n THEN cat ELSE Resized(cat \o NUL, n)

\* uint32_t offset = eoffset.value()
ToUint32(n) == n % UINT32_MOD

\* SetRangeCommand::newValueFromOld as [code, rv]; eoffset is the int64 that
\* stoll made of the argument
SetRangeNewValueFromOld(eoffset, val, old) ==
    IF eoffset < 0 THEN [code |-> "ERR_PARSEOPT", rv |-> Absent]
    ELSE LET offset == ToUint32(eoffset)
         IN  IF offset + Len(val) > MAX_STRING_SIZE
             THEN [code |-> "ERR_PARSEOPT", rv |-> Absent]
             ELSE LET cat0 == IF old.present THEN old.value ELSE ""
                      cat == IF offset + Len(val) > Len(cat0)
                             THEN Resized(cat0, offset + Len(val)) ELSE cat0
                  IN  [code |-> "ERR_OK",
                       rv |-> RecordValue(
                                SubSeq(cat, 1, offset) \o val
                                  \o SubSeq(cat, offset + Len(val) + 1,
                                            Len(cat)),
                                IF old.present THEN old.ttl ELSE 0)]

\* the commands that run GetSetGeneral::runGeneral
IncrDecrOps == {"incr", "decr", "incrby", "decrby"}

RunGeneralOps == IncrDecrOps \cup {"cas", "append", "getset", "setrange"}

\* newValueFromOld of the command of session record r on the record old
NewValues(r, old) ==
    CASE r.op = "incrby" -> {NewValueFromOld(r.incr, old)}
      [] r.op = "decrby" -> DecrbyNewValueFromOld(r.incr, old)
      [] r.op = "incr" -> {IncrNewValueFromOld(old)}
      [] r.op = "decr" -> {DecrNewValueFromOld(old)}
      [] r.op = "cas" -> {CasNewValueFromOld(r.cas, r.val, old)}
      [] r.op = "append" -> {AppendNewValueFromOld(r.val, old)}
      [] r.op = "getset" -> {GetSetNewValueFromOld(r.val, old)}
      [] r.op = "setrange" -> {SetRangeNewValueFromOld(r.offset, r.val, old)}

\* what the command replies when setGeneric returned res
ReplyOf(r, res) ==
    IF res.code = "ERR_OK" /\ r.op \in IncrDecrOps
    THEN Ok(fmtLongLong(Stoll(r.rv.value)))
    ELSE IF res.code = "ERR_OK" /\ r.op \in {"append", "setrange"}
    THEN Ok(fmtLongLong(Len(r.rv.value)))
    ELSE IF res.code = "ERR_OK" /\ r.op = "getset"
    THEN Ok(IF r.old.present /\ Len(r.old.value) # 0
            THEN fmtBulk(r.old.value) ELSE fmtNull)
    ELSE res

\* the session after its attempts-th attempt ended with res
AfterAttempt(r, res) ==
    LET q == [r EXCEPT !.errs = Append(@, res.code),
                       !.txn.used = TRUE, !.txn.open = FALSE,
                       !.pending = "none"]
        decision == IF r.op = "set"
                    THEN SetCommandAfter(r.attempts, res.code)
                    ELSE LoopAfter(r.attempts, res.code)
    IN  IF decision = "retry" THEN [q EXCEPT !.pc = "attempt"]
        ELSE Finish(q, ReplyOf(r, res))

\* an attempt that ended before it reached setGeneric
FailAttempt(r, code) == Finish([r EXCEPT !.errs = Append(@, code)], Err(code))

\* setGeneric is entered with record rv
EnterSetGeneric(r, txn, rv) ==
    [r EXCEPT !.txn = txn, !.rv = rv, !.ttl = rv.ttl, !.attempts = @ + 1,
              !.pc = IF r.flags = REDIS_SET_NO_FLAGS
                     THEN "sg_commit" ELSE "sg_read",
              !.pending = IF r.flags = REDIS_SET_NO_FLAGS
                          THEN "put" ELSE "none"]

(* The steps of a command. *)

\* a client sends a command; SetExCommand::run reads the clock before
\* runGeneral takes the lock
Issue(s, cmd) ==
    /\ ks[s].pc = "idle"
    /\ ks' = [ks EXCEPT ![s] =
                [@ EXCEPT !.op = cmd.op, !.val = cmd.val,
                          !.flags = cmd.flags, !.exGiven = cmd.exGiven,
                          !.expire = ParseExpire(cmd), !.incr = cmd.incr,
                          !.cas = IF cmd.op = "cas" THEN cmd.cas ELSE 0,
                          !.offset = IF cmd.op = "setrange"
                                     THEN cmd.offset ELSE 0,
                          !.ttl = IF cmd.op = "setex"
                                  THEN now + cmd.exArg * MS_PER_SEC ELSE 0,
                          !.okReply = IF cmd.op = "setnx"
                                      THEN fmtOne ELSE fmtOK,
                          !.abortReply = IF cmd.op = "setnx"
                                         THEN fmtZero ELSE fmtNull,
                          !.pc = CASE cmd.op = "get" -> "get"
                                   [] cmd.op \in RunGeneralOps -> "rg_expire"
                                   [] OTHER -> "lock"]]
    /\ UNCHANGED <<kv, klock, now, ext, faults, khist, kinit>>

KStart(s) == \E cmd \in Commands(s) : Issue(s, cmd)

\* a SET ... EX of session w that replied +OK, was the last write of the
\* key, and whose seconds have passed
Due(k) ==
    LET w == khist[k]
    IN  IF /\ w \in Sessions
           /\ ks[w].pc = "done" /\ ks[w].op = "set" /\ ks[w].exGiven
           /\ ks[w].ret.reply = fmtOK
           /\ now >= ks[w].tReply + ks[w].expire
        THEN w ELSE "none"

\* a SET without flags or expiry of session w that replied +OK and was the
\* last write of the key
LastSet(k) ==
    LET w == khist[k]
    IN  IF /\ w \in Sessions
           /\ ks[w].pc = "done" /\ ks[w].op = "set"
           /\ ks[w].flags = REDIS_SET_NO_FLAGS /\ ~ks[w].exGiven
           /\ ks[w].ret.reply = fmtOK
        THEN w ELSE "none"

\* GetGenericCmd::run and GetCommand::run
KGet(s) ==
    LET r == ks[s]
        k == r.key
        st == ExpireStatus(kv[k])
        v == IF st = "ERR_OK" THEN kv[k].value ELSE ""
    IN
    /\ r.pc = "get"
    /\ kv' = IF st = "ERR_EXPIRED" THEN [kv EXCEPT ![k] = Absent] ELSE kv
    /\ ks' = [(IF st = "ERR_EXPIRED" THEN Touched(k, s, FALSE) ELSE ks)
                EXCEPT ![s] =
                  Finish([r EXCEPT !.after = Due(k), !.last = LastSet(k)],
                         Ok(IF v = "" THEN fmtNull ELSE fmtBulk(v)))]
    /\ UNCHANGED <<klock, now, ext, faults, khist, kinit>>

\* GetSetGeneral::runGeneral: expireKeyIfNeeded, before the lock
KRgExpire(s) ==
    LET r == ks[s]
        k == r.key
        st == ExpireStatus(kv[k])
    IN
    /\ r.pc = "rg_expire"
    /\ kv' = IF st = "ERR_EXPIRED" THEN [kv EXCEPT ![k] = Absent] ELSE kv
    /\ ks' = [(IF st = "ERR_EXPIRED" THEN Touched(k, s, FALSE) ELSE ks)
                EXCEPT ![s] = [r EXCEPT !.pc = "lock"]]
    /\ UNCHANGED <<klock, now, ext, faults, khist, kinit>>

\* getDbWithKeyLock(sess, key, LOCK_X)
KLock(s) ==
    LET r == ks[s]
        k == r.key
    IN
    /\ r.pc = "lock"
    /\ LockFree(k)
    /\ klock' = [klock EXCEPT ![k] = s]
    /\ ks' = [ks EXCEPT ![s] = [r EXCEPT !.pc = "attempt"]]
    /\ UNCHANGED <<kv, now, ext, faults, khist, kinit>>

\* the top of an attempt: createTransaction, and for runGeneral getKV and
\* newValueFromOld; SetCommand::run reads the clock after its first
\* createTransaction
KAttempt(s) ==
    LET r == ks[s]
        k == r.key
        txn == NewTxn(k)
        ts == IF r.op = "set" /\ r.attempts = 0
              THEN (IF r.expire # 0 THEN now + r.expire ELSE 0)
              ELSE r.ttl
        q == [r EXCEPT !.old = txn.snap]
    IN
    /\ r.pc = "attempt"
    /\ \/ /\ faults < MaxFaults
          /\ faults' = faults + 1
          /\ ks' = [ks EXCEPT ![s] = FailAttempt(r, "ERR_INTERNAL")]
       \/ /\ r.op \notin RunGeneralOps
          /\ ks' = [ks EXCEPT ![s] =
                      EnterSetGeneric(r, txn, RecordValue(r.val, ts))]
          /\ UNCHANGED faults
       \/ /\ r.op \in RunGeneralOps
          /\ \E nv \in NewValues(r, txn.snap) :
               ks' = [ks EXCEPT ![s] =
                        IF nv.code # "ERR_OK" THEN FailAttempt(q, nv.code)
                        ELSE EnterSetGeneric(q, txn, nv.rv)]
          /\ UNCHANGED faults
    /\ klock' = IF ks'[s].pc = "done" THEN Released(k, s) ELSE klock
    /\ UNCHANGED <<kv, now, ext, khist, kinit>>

\* a needExpire that never finds the record stale
NeedExpireNever(eValue, currentTs) == FALSE

\* setGeneric: needExpire of the record read at time currentTs
NeedExpire(eValue, currentTs) ==
    LET targetTtl == IF eValue.present THEN eValue.ttl ELSE 0
    IN  targetTtl # 0 /\ currentTs >= eValue.ttl

\* an early return that never deletes
OnAbortReturn(needExpire) == "return"

\* setGeneric: what the early return does first
OnAbort(needExpire) == IF needExpire THEN "del" ELSE "return"

\* setGeneric with a flag: getKV and the NX / XX test
KSgRead(s) ==
    LET r == ks[s]
        k == r.key
        eValue == r.txn.snap
        currentTs == IF eValue.present THEN now ELSE 0
        needExpire == NeedExpire(eValue, currentTs)
        exists == eValue.present /\ ~needExpire
    IN
    /\ r.pc = "sg_read"
    /\ \/ /\ faults < MaxFaults
          /\ faults' = faults + 1
          /\ ks' = [ks EXCEPT ![s] = AfterAttempt(r, Err("ERR_INTERNAL"))]
       \/ /\ ks' = [ks EXCEPT ![s] =
                      IF SetAborts(r.flags, exists)
                      THEN IF OnAbort(needExpire) = "del"
                           THEN [r EXCEPT !.pc = "sg_commit", !.pending = "del"]
                           ELSE AfterAttempt(r, Ok(r.abortReply))
                      ELSE [r EXCEPT !.pc = "sg_commit", !.pending = "put"]]
          /\ UNCHANGED faults
    /\ klock' = IF ks'[s].pc = "done" THEN Released(k, s) ELSE klock
    /\ UNCHANGED <<kv, now, ext, khist, kinit>>

\* setGeneric: setKV or delKV, then commit, and the caller's loop
KSgCommit(s) ==
    LET r == ks[s]
        k == r.key
    IN
    /\ r.pc = "sg_commit"
    /\ \/ /\ faults < MaxFaults
          /\ faults' = faults + 1
          /\ ks' = [ks EXCEPT ![s] = AfterAttempt(r, Err("ERR_INTERNAL"))]
          /\ UNCHANGED <<kv, khist>>
       \/ /\ r.txn.dirty
          /\ ks' = [ks EXCEPT ![s] = AfterAttempt(r, Err("ERR_COMMIT_RETRY"))]
          /\ UNCHANGED <<kv, khist, faults>>
       \/ /\ ~r.txn.dirty
          /\ kv' = [kv EXCEPT ![k] = IF r.pending = "put" THEN r.rv ELSE Absent]
          /\ khist' = [khist EXCEPT ![k] = s]
          /\ ks' = [Touched(k, s, TRUE) EXCEPT ![s] =
                      AfterAttempt([r EXCEPT !.commits = @ + 1],
                                   Ok(IF r.pending = "put"
                                      THEN r.okReply ELSE r.abortReply))]
          /\ UNCHANGED faults
    /\ klock' = IF ks'[s].pc = "done" THEN Released(k, s) ELSE klock
    /\ UNCHANGED <<now, ext, kinit>>

\* applySingleTxn commits a replicated write of the key; it takes no key lock
BinlogWrite ==
    /\ ext < MaxExt
    /\ ext' = ext + 1
    /\ \E k \in Keys, rec \in {RecordValue("r", 0)} :
         /\ kv' = [kv EXCEPT ![k] = rec]
         /\ khist' = [khist EXCEPT ![k] = "ext"]
         /\ ks' = Touched(k, "ext", FALSE)
    /\ UNCHANGED <<klock, now, faults, kinit>>

KTick ==
    /\ now + MsStep <= MaxNow
    /\ now' = now + MsStep
    /\ UNCHANGED <<kv, klock, ks, ext, faults, khist, kinit>>

KvInits == {Absent, RecordValue("x", 0), RecordValue("2", MsStep)}

KvInit ==
    /\ kv \in [Keys -> KvInits]
    /\ klock = [k \in Keys |-> NoOwner]
    /\ ks = [s \in Sessions |-> KsIdle]
    /\ now = 0
    /\ ext = 0
    /\ faults = 0
    /\ khist = [k \in Keys |-> "none"]
    /\ kinit = kv

\* the command engine with nothing to do
KvQuiet ==
    /\ KvInit
    /\ kv = [k \in Keys |-> Absent]

KvNext ==
    \/ \E s \in Sessions :
         \/ KStart(s) /\ UNCHANGED nonKvVars
         \/ KGet(s) /\ UNCHANGED nonKvVars
         \/ KRgExpire(s) /\ UNCHANGED nonKvVars
         \/ KLock(s) /\ UNCHANGED nonKvVars
         \/ KAttempt(s) /\ UNCHANGED nonKvVars
         \/ KSgRead(s) /\ UNCHANGED nonKvVars
         \/ KSgCommit(s) /\ UNCHANGED nonKvVars
    \/ BinlogWrite /\ UNCHANGED nonKvVars
    \/ KTick /\ UNCHANGED nonKvVars

(* The read-modify-write commands: two clients, one command each out of   *)
(* CAS, APPEND, INCR, DECR, INCRBY, DECRBY, a plain SET and GET.           *)

\* the cas arguments a client may send
CasArgs == {0, 1, UINT64_MAX}

DecrbyArgs == {"1", to_string(LLONG_MIN)}

\* the offsets of SETRANGE a client may send: a negative one, offsets
\* inside the largest string, the first one beyond it, and 2^32
SetRangeOffsets == {-1, 0, 2, MAX_STRING_SIZE, UINT32_MOD}

NoArgs ==
    [op |-> "none", val |-> "", flags |-> REDIS_SET_NO_FLAGS, exGiven |-> FALSE,
     exArg |-> 0, incr |-> "", cas |-> 0, offset |-> 0]

RmwCommands(s) ==
    { [NoArgs EXCEPT !.op = "cas", !.val = ArgValue(s), !.cas = c] :
        c \in CasArgs }
    \cup { [NoArgs EXCEPT !.op = "set", !.val = v] : v \in {ArgValue(s), ""} }
    \cup { [NoArgs EXCEPT !.op = o, !.val = ArgValue(s)] :
             o \in {"append", "getset"} }
    \cup { [NoArgs EXCEPT !.op = "setrange", !.val = ArgValue(s),
                          !.offset = n] : n \in SetRangeOffsets }
    \cup { [NoArgs EXCEPT !.op = o] : o \in {"incr", "decr", "get"} }
    \cup { [NoArgs EXCEPT !.op = "incrby", !.incr = "2"] }
    \cup { [NoArgs EXCEPT !.op = "decrby", !.incr = d] : d \in DecrbyArgs }

RStart(s) == \E cmd \in RmwCommands(s) : Issue(s, cmd)

RmwInits ==
    {Absent, RecordValue("x", 0), RecordValue("2", MsStep),
     WithCas(RecordValue(to_string(LLONG_MAX), 0), 1, 0),
     RecordValue(to_string(LLONG_MIN + 1), 0)}

RmwInit ==
    /\ kv \in [Keys -> RmwInits]
    /\ klock = [k \in Keys |-> NoOwner]
    /\ ks = [s \in Sessions |-> KsIdle]
    /\ now = 0
    /\ ext = 0
    /\ faults = 0
    /\ khist = [k \in Keys |-> "none"]
    /\ kinit = kv

RmwNext ==
    \/ \E s \in Sessions :
         \/ RStart(s) /\ UNCHANGED nonKvVars
         \/ KGet(s) /\ UNCHANGED nonKvVars
         \/ KRgExpire(s) /\ UNCHANGED nonKvVars
         \/ KLock(s) /\ UNCHANGED nonKvVars
         \/ KAttempt(s) /\ UNCHANGED nonKvVars
         \/ KSgCommit(s) /\ UNCHANGED nonKvVars
    \/ KTick /\ UNCHANGED nonKvVars

---------------------------------------------------------------------------
(* BITOP: one call over two source keys and a destination.  Values are    *)
(* sequences of bytes; a byte of the model has BYTE_BITS bits.             *)

\* source keys one BITOP names
MaxSrcs == 2

\* bits of an unsigned char: a small width stands for 8
BYTE_BITS == 2

BYTE_MAX == 2 ^ BYTE_BITS - 1

SrcKeys == {"a", "b"}

DestKey == "d"

BKeys == SrcKeys \cup {DestKey}

BitOps == {"BITOP_AND", "BITOP_OR", "BITOP_XOR", "BITOP_NOT"}

\* the source lists of a call; NOT must be called with a single source key
SrcLists(op) ==
    UNION { [1..n -> SrcKeys] :
            n \in 1..(IF op = "BITOP_NOT" THEN 1 ELSE MaxSrcs) }

RECURSIVE Bitwise(_, _, _, _)
\* output &= byte, output |= byte, output ^= byte on bits low bits
Bitwise(op, a, b, bits) ==
    IF bits = 0 THEN 0
    ELSE LET x == a % 2
             y == b % 2
             z == CASE op = "BITOP_AND" -> x * y
                    [] op = "BITOP_OR" -> IF x + y > 0 THEN 1 ELSE 0
                    [] op = "BITOP_XOR" -> (x + y) % 2
         IN  z + 2 * Bitwise(op, a \div 2, b \div 2, bits - 1)

\* output = ~output on an unsigned char
Complement(a) == BYTE_MAX - a

\* (vals[j].size() <= i) ? 0 : vals[j][i], i counted from 1
ByteAt(val, i) == IF Len(val) < i THEN 0 ELSE val[i]

RECURSIVE FoldFrom(_, _, _, _, _)
\* the inner loop over the sources j..numKeys
FoldFrom(op, vals, i, j, output) ==
    IF j > Len(vals) THEN output
    ELSE FoldFrom(op, vals, i, j + 1,
                  Bitwise(op, output, ByteAt(vals[j], i), BYTE_BITS))

\* byte i of the result
ResultByte(op, vals, i) ==
    LET first == ByteAt(vals[1], i)
    IN  FoldFrom(op, vals, i, 2,
                 IF op = "BITOP_NOT" THEN Complement(first) ELSE first)

\* std::string result(maxLen, 0) after the outer loop
BitopResult(op, vals, maxLen) == [i \in 1..maxLen |-> ResultByte(op, vals, i)]

\* rv.value() of an Expected that holds an error: the class is not part of
\* these sources, so the read either yields an empty RecordValue or trips
\* the assertion of Expected::value
ErrorValueEmpty == {"empty"}

ErrorValueOutcomes == {"empty", "abort"}

BopIdle ==
    [pc |-> "idle", op |-> "none", srcs |-> <<>>, vals |-> <<>>, maxLen |-> 0,
     result |-> <<>>, attempts |-> 0, ret |-> "none", seen |-> <<>>]

\* the values the three keys may hold when the command arrives
BitopInits ==
    {Absent, RecordValue(<<>>, 0), RecordValue(<<1>>, 0),
     RecordValue(<<3, 2>>, 0), RecordValue(<<2>>, MsStep)}

BitopInit ==
    /\ bkv \in [BKeys -> BitopInits]
    /\ bop = BopIdle

\* no BITOP is sent
BitopQuiet ==
    /\ bkv = [k \in BKeys |-> Absent]
    /\ bop = BopIdle

\* BITOP op d src...: the arguments are parsed
BStart ==
    /\ bop.pc = "idle"
    /\ \E op \in BitOps : \E srcs \in SrcLists(op) :
         bop' = [bop EXCEPT !.pc = "read", !.op = op, !.srcs = srcs]
    /\ UNCHANGED bkv

\* one pass of the loop over the sources: expireKeyIfNeeded and push_back
BRead ==
    LET j == Len(bop.vals) + 1
        key == bop.srcs[j]
        rec == bkv[key]
        st == ExpireStatus(rec)
        seen == Append(bop.seen, [rec |-> rec, at |-> now])
        next == IF j = Len(bop.srcs) THEN "fold" ELSE "read"
    IN
    /\ bop.pc = "read"
    /\ bkv' = IF st = "ERR_EXPIRED" THEN [bkv EXCEPT ![key] = Absent] ELSE bkv
    /\ IF st = "ERR_OK"
       THEN bop' = [bop EXCEPT !.vals = Append(@, rec.value),
                               !.maxLen = IF Len(rec.value) > @
                                          THEN Len(rec.value) ELSE @,
                               !.seen = seen, !.pc = next]
       ELSE \E out \in ErrorValueOutcomes :
              IF out = "abort"
              THEN bop' = [bop EXCEPT !.pc = "aborted", !.seen = seen]
              ELSE bop' = [bop EXCEPT !.vals = Append(@, <<>>),
                                      !.seen = seen, !.pc = next]

\* maxLen == 0: delKeyChkExpire and fmtZero; else the result is computed
BFold ==
    /\ bop.pc = "fold"
    /\ IF bop.maxLen = 0
       THEN /\ bkv' = [bkv EXCEPT ![DestKey] = Absent]
            /\ bop' = [bop EXCEPT !.pc = "done", !.ret = fmtZero]
       ELSE /\ bop' = [bop EXCEPT !.pc = "set",
                          !.result = BitopResult(bop.op, bop.vals, bop.maxLen)]
            /\ UNCHANGED bkv

\* one pass of the retry loop: setGeneric(REDIS_SET_NO_FLAGS) on the target
BSet ==
    /\ bop.pc = "set"
    /\ \E code \in {"ERR_OK", "ERR_COMMIT_RETRY", "ERR_INTERNAL"} :
         LET attempts == bop.attempts + 1
         IN
         /\ bkv' = IF code = "ERR_OK"
                   THEN [bkv EXCEPT ![DestKey] = RecordValue(bop.result, 0)]
                   ELSE bkv
         /\ bop' = IF LoopAfter(attempts, code) = "retry"
                   THEN [bop EXCEPT !.attempts = attempts]
                   ELSE [bop EXCEPT !.attempts = attempts, !.pc = "done",
                            !.ret = IF code = "ERR_OK"
                                    THEN fmtLongLong(Len(bop.result))
                                    ELSE code]

BitopNext ==
    \/ BStart /\ UNCHANGED nonBitopVars
    \/ BRead /\ UNCHANGED nonBitopVars
    \/ BFold /\ UNCHANGED nonBitopVars
    \/ BSet /\ UNCHANGED nonBitopVars
    \/ KTick /\ UNCHANGED nonKvVars

---------------------------------------------------------------------------
(* MSET: two sessions, each with one MSET over the keys "a" and "b".       *)

\* key-value pairs of one MSET
MaxPairs == 2

MKeys == {"a", "b"}

\* the key arguments of one MSET, each key at most once
MsetArgs ==
    { ks1 \in UNION { [1..n -> MKeys] : n \in 1..MaxPairs } :
        \A i, j \in 1..Len(ks1) : i # j => ks1[i] # ks1[j] }

MsIdle == [pc |-> "idle", keys |-> <<>>, i |-> 1, attempts |-> 0, ret |-> "none"]

\* getDbWithKeyLock ties the X lock to the session: it is given back when
\* the command is over, not when the handle of one iteration goes
HeldAfterIteration(lock, s, key) == lock

\* the command is over: every lock of the session is given back
ReleasedAll(lock, s) == [k \in MKeys |-> IF lock[k] = s THEN NoOwner ELSE lock[k]]

MsetInit ==
    /\ mkv = [k \in MKeys |-> Absent]
    /\ mlock = [k \in MKeys |-> NoOwner]
    /\ ms = [s \in Sessions |-> MsIdle]

\* MSET k1 v1 k2 v2 ... arrives on session s; the value names the session
MStart(s) ==
    /\ ms[s].pc = "idle"
    /\ \E keys \in MsetArgs :
         ms' = [ms EXCEPT ![s] = [MsIdle EXCEPT !.pc = "lock", !.keys = keys]]
    /\ UNCHANGED <<mkv, mlock>>

\* the top of the loop over the keys: getDbWithKeyLock(sess, key, LOCK_X)
\* blocks while another session holds the key
MLock(s) ==
    LET key == ms[s].keys[ms[s].i]
    IN
    /\ ms[s].pc = "lock"
    /\ mlock[key] \in {NoOwner, s}
    /\ mlock' = [mlock EXCEPT ![key] = s]
    /\ ms' = [ms EXCEPT ![s].pc = "set", ![s].attempts = 0]
    /\ UNCHANGED mkv

\* one pass of the retry loop of a key: createTransaction and
\* setGeneric(REDIS_SET_NO_FLAGS); success goes on with the next key, fmtOK
\* after the last
MSet(s) ==
    LET r == ms[s]
        key == r.keys[r.i]
        attempts == r.attempts + 1
        last == r.i = Len(r.keys)
    IN
    /\ r.pc = "set"
    /\ \E code \in {"ERR_OK", "ERR_COMMIT_RETRY", "ERR_INTERNAL"} :
         IF code = "ERR_OK"
         THEN /\ mkv' = [mkv EXCEPT ![key] = RecordValue(s, 0)]
              /\ IF last
                 THEN /\ ms' = [ms EXCEPT ![s].pc = "done", ![s].ret = fmtOK,
                                          ![s].attempts = attempts]
                      /\ mlock' = ReleasedAll(mlock, s)
                 ELSE /\ ms' = [ms EXCEPT ![s].pc = "lock", ![s].i = r.i + 1,
                                          ![s].attempts = attempts]
                      /\ mlock' = HeldAfterIteration(mlock, s, key)
         ELSE IF LoopAfter(attempts, code) = "retry"
         THEN /\ ms' = [ms EXCEPT ![s].attempts = attempts]
              /\ UNCHANGED <<mkv, mlock>>
         ELSE /\ ms' = [ms EXCEPT ![s].pc = "done", ![s].ret = code,
                                  ![s].attempts = attempts]
              /\ mlock' = ReleasedAll(mlock, s)
              /\ UNCHANGED mkv

MsetNext ==
    \E s \in Sessions :
        \/ MStart(s) /\ UNCHANGED nonMsetVars
        \/ MLock(s) /\ UNCHANGED nonMsetVars
        \/ MSet(s) /\ UNCHANGED nonMsetVars

---------------------------------------------------------------------------
(* applySingleTxn in detail: one transaction of replicated operations is   *)
(* staged and committed on the replica store.                              *)

\* transactions handed to applySingleTxn over one run
MaxTxns == 2

\* operations in one transaction
MaxOps == 2

AKeys == {"k1", "k2"}

NoValue == "nil"

\* The ReplLogs a transaction may carry: a SET, a DEL, a SET whose value
\* does not decode, a log whose key does not decode, and an op that is
\* neither SET nor DEL.
ReplLogs ==
    { [op |-> "REPL_OP_SET", key |-> "k1", keyOk |-> TRUE, val |-> "v", valOk |-> TRUE],
      [op |-> "REPL_OP_SET", key |-> "k2", keyOk |-> TRUE, val |-> "w", valOk |-> TRUE],
      [op |-> "REPL_OP_DEL", key |-> "k1", keyOk |-> TRUE, val |-> "", valOk |-> TRUE],
      [op |-> "REPL_OP_SET", key |-> "k1", keyOk |-> TRUE, val |-> "", valOk |-> FALSE],
      [op |-> "REPL_OP_DEL", key |-> "k2", keyOk |-> FALSE, val |-> "", valOk |-> TRUE],
      [op |-> "REPL_OP_NONE", key |-> "k1", keyOk |-> TRUE, val |-> "", valOk |-> TRUE] }

OpLists == UNION { [1..n -> ReplLogs] : n \in 0..MaxOps }

\* the replica store: the data records and the raw log records
EmptyStore == [data |-> [k \in AKeys |-> NoValue], binlog |-> {}]

\* log.encode(): the raw log record of operation seq of transaction txnId
EncodeLog(txnId, seq, log) ==
    [txnId |-> txnId, seq |-> seq, op |-> log.op, key |-> log.key, val |-> log.val]

\* one staged write of a transaction put into the store
ApplyWrite(store, w) ==
    IF w.kind = "log" THEN [store EXCEPT !.binlog = @ \cup {w.rec}]
    ELSE IF w.kind = "put" THEN [store EXCEPT !.data[w.key] = w.val]
    ELSE [store EXCEPT !.data[w.key] = NoValue]

\* Transaction::commit: the staged writes become visible together, in order
RECURSIVE CommitWrites(_, _)
CommitWrites(store, staged) ==
    IF staged = <<>> THEN store
    ELSE CommitWrites(ApplyWrite(store, Head(staged)), Tail(staged))

\* StageLog that leaves the raw log record out
StageLogSkip(staged, rec) == staged

\* store->setKV(strPair.first, strPair.second, txn, false): the raw log
\* record is staged under its encoded key
StageLog(staged, rec) == Append(staged, [kind |-> "log", rec |-> rec])

\* what a transaction of ops is to leave in the store: per operation its
\* raw log record and its put or delete
RECURSIVE Mirrored(_, _, _, _)
Mirrored(store, txnId, ops, seq) ==
    IF seq > Len(ops) THEN store
    ELSE LET log == ops[seq]
             s1 == [store EXCEPT !.binlog = @ \cup {EncodeLog(txnId, seq, log)}]
             s2 == IF log.op = "REPL_OP_SET"
                   THEN [s1 EXCEPT !.data[log.key] = log.val]
                   ELSE [s1 EXCEPT !.data[log.key] = NoValue]
         IN  Mirrored(s2, txnId, ops, seq + 1)

ATxnIdle ==
    [pc |-> "idle", txnId |-> 0, ops |-> <<>>, i |-> 1, staged |-> <<>>,
     ret |-> "none", storeAt |-> EmptyStore]

\* applySingleTxn is called: createTransaction gives a transaction or fails
ABegin ==
    /\ atxn.pc = "idle"
    /\ atxn.txnId < MaxTxns
    /\ \E ops \in OpLists, ok \in BOOLEAN :
         atxn' = [ATxnIdle EXCEPT !.txnId = atxn.txnId + 1, !.ops = ops,
                                  !.storeAt = astore,
                                  !.pc = IF ok THEN "op" ELSE "ret",
                                  !.ret = IF ok THEN "none" ELSE "ERR_INTERNAL"]
    /\ UNCHANGED astore

\* one round of the loop over ops: decode the key, stage the raw log,
\* then stage the put or the delete; an unknown op ends the process
AOp ==
    LET log == atxn.ops[atxn.i]
        fail(code) == [atxn EXCEPT !.pc = "ret", !.ret = code]
        withLog == StageLog(atxn.staged, EncodeLog(atxn.txnId, atxn.i, log))
        next(w) == [atxn EXCEPT !.staged = Append(withLog, w), !.i = @ + 1]
    IN
    /\ atxn.pc = "op"
    /\ atxn.i <= Len(atxn.ops)
    /\ IF ~log.keyOk THEN atxn' = fail("ERR_DECODE")
       ELSE \/ atxn' = fail("ERR_INTERNAL")
            \/ IF log.op = "REPL_OP_SET"
               THEN IF ~log.valOk THEN atxn' = fail("ERR_DECODE")
                    ELSE \/ atxn' = fail("ERR_INTERNAL")
                         \/ atxn' = next([kind |-> "put", key |-> log.key,
                                          val |-> log.val])
               ELSE IF log.op = "REPL_OP_DEL"
               THEN \/ atxn' = fail("ERR_INTERNAL")
                    \/ atxn' = next([kind |-> "del", key |-> log.key,
                                     val |-> NoValue])
               ELSE atxn' = [atxn EXCEPT !.pc = "fatal"]
    /\ UNCHANGED astore

\* txn->commit(): all staged writes at once, or an error and nothing
ACommit ==
    /\ atxn.pc = "op"
    /\ atxn.i > Len(atxn.ops)
    /\ \/ /\ astore' = CommitWrites(astore, atxn.staged)
          /\ atxn' = [atxn EXCEPT !.pc = "ret", !.ret = "ERR_OK"]
       \/ \E e \in {"ERR_COMMIT_RETRY", "ERR_INTERNAL"} :
            /\ atxn' = [atxn EXCEPT !.pc = "ret", !.ret = e]
            /\ UNCHANGED astore

\* applySingleTxn has returned; the transaction object is gone
AReturn ==
    /\ atxn.pc = "ret"
    /\ atxn' = [ATxnIdle EXCEPT !.txnId = atxn.txnId]
    /\ UNCHANGED astore

ApplyInit ==
    /\ atxn = ATxnIdle
    /\ astore = EmptyStore

---------------------------------------------------------------------------
(* The replication state machine. *)

\* A shard starts as a replica that has to fullsync, as a replica already
\* in step with its leader, or with no leader at all.
ReplInitMetas ==
    { Meta(REPL_CONNECT, MAX_VALID_TXNID + 1, "leader"),
      Meta(REPL_CONNECTED, 3, "leader"),
      Meta(REPL_DISCONNECTED, MAX_VALID_TXNID + 1, "") }

ReplInit ==
    /\ syncMeta \in ReplInitMetas
    /\ persistMeta = syncMeta
    /\ syncStatus = [isRunning |-> FALSE, sessionId |-> UINT64_MAX,
                     lastSyncTime |-> 0, nextSchedTime |-> 0]
    /\ tick = TickIdle
    /\ rstore = [running |-> TRUE]
    /\ backup = [exists |-> FALSE, files |-> EmptyFlist]
    /\ applied = <<>>
    /\ appl = [a \in Appliers |-> ApplIdle]
    /\ feed = [i \in {} |-> 0]
    /\ nextSession = 1
    /\ calls = 0
    /\ sclock = 0
    /\ halted = FALSE

ReplNext ==
    \/ TickStart /\ UNCHANGED nonReplVars
    \/ RoutineEnter /\ UNCHANGED nonReplVars
    \/ RoutineExit /\ UNCHANGED nonReplVars
    \/ FsStop /\ UNCHANGED nonReplVars
    \/ FsClear /\ UNCHANGED nonReplVars
    \/ FsClient /\ UNCHANGED nonReplVars
    \/ FsRequest /\ UNCHANGED nonReplVars
    \/ FsParse /\ UNCHANGED nonReplVars
    \/ FsNextFile /\ UNCHANGED nonReplVars
    \/ FsData /\ UNCHANGED nonReplVars
    \/ FsSendOk /\ UNCHANGED nonReplVars
    \/ FsFinish /\ UNCHANGED nonReplVars
    \/ FsReturn /\ UNCHANGED nonReplVars
    \/ ChkReconn /\ UNCHANGED nonReplVars
    \/ ChkRequest /\ UNCHANGED nonReplVars
    \/ ChkHandoff /\ UNCHANGED nonReplVars
    \/ ChkRecord /\ UNCHANGED nonReplVars
    \/ ChkReturn /\ UNCHANGED nonReplVars
    \/ \E a \in Appliers :
         \/ ApplyStart(a) /\ UNCHANGED nonReplVars
         \/ ApplyWait(a) /\ UNCHANGED nonReplVars
         \/ SpuriousWake(a) /\ UNCHANGED nonReplVars
         \/ ApplyCheck(a) /\ UNCHANGED nonReplVars
         \/ ApplyTxn(a) /\ UNCHANGED nonReplVars
         \/ ApplyUpdate(a) /\ UNCHANGED nonReplVars
         \/ ApplyExit(a) /\ UNCHANGED nonReplVars
    \/ AdvanceClock /\ UNCHANGED nonReplVars

\* the replica with no client traffic
ReplSpecInit == ReplInit /\ KvQuiet /\ ApplyInit /\ BitopQuiet /\ MsetInit

ReplSpec == ReplSpecInit /\ [][ReplNext]_vars

(* The replica under a fair scheduler and an environment that behaves     *)
(* from GoodFrom on.                                                       *)

\* the time from which the store and the leader make no more errors
GoodFrom == ClockStep

\* a step in which neither the store nor the leader nor the network fails:
\* no return of slaveStartFullsync before its end, a well-formed file list,
\* and no fatal error that the store, the file system or the leader caused
EnvGood ==
    /\ (tick'.pc = "fs_ret" /\ tick.pc # "fs_ret") => tick'.fsEnd = "done"
    /\ (tick'.pc = "fs_parse" /\ tick.pc # "fs_parse")
         => tick'.replyKind = "flist"
    /\ (halted' /\ ~halted)
         => ~(\/ tick.pc \in {"fs_clear", "fs_loop", "fs_restart"}
              \/ tick.pc = "fs_parse" /\ ~backup.exists)

ReplLiveNext == ReplNext /\ (sclock < GoodFrom \/ EnvGood)

\* the steps of the scheduler thread inside a tick
TickThread ==
    /\ \/ RoutineEnter \/ RoutineExit
       \/ FsStop \/ FsClear \/ FsClient \/ FsRequest \/ FsParse
       \/ FsNextFile \/ FsData \/ FsSendOk \/ FsFinish \/ FsReturn
       \/ ChkReconn \/ ChkRequest \/ ChkHandoff \/ ChkRecord \/ ChkReturn
    /\ UNCHANGED nonReplVars

\* the steps of a session's thread inside applyBinlogs, except the waking
\* of a blocked thread
ApplierThread(a) ==
    /\ \/ ApplyWait(a) \/ ApplyCheck(a) \/ ApplyTxn(a)
       \/ ApplyUpdate(a) \/ ApplyExit(a)
    /\ UNCHANGED nonReplVars

\* the scheduler thread, the binlog threads and the clock keep running
ReplLiveFairness ==
    /\ WF_vars(ReplLiveNext)
    /\ WF_vars(TickStart /\ UNCHANGED nonReplVars)
    /\ WF_vars(AdvanceClock /\ UNCHANGED nonReplVars)
    /\ WF_vars(TickThread /\ ReplLiveNext)
    /\ \A a \in Appliers : WF_vars(ApplierThread(a) /\ ReplLiveNext)

ReplLiveSpec == ReplSpecInit /\ [][ReplLiveNext]_vars /\ ReplLiveFairness

\* the replication part while commands run: a replica in step with its leader
ReplQuiet ==
    /\ ReplInit
    /\ syncMeta.replState = REPL_CONNECTED

\* the command engine of a replica that is in step with its leader
KvSpecInit == KvInit /\ ReplQuiet /\ ApplyInit /\ BitopQuiet /\ MsetInit

KvSpec == KvSpecInit /\ [][KvNext]_vars

ApplyNext ==
    \/ ABegin /\ UNCHANGED nonApplyVars
    \/ AOp /\ UNCHANGED nonApplyVars
    \/ ACommit /\ UNCHANGED nonApplyVars
    \/ AReturn /\ UNCHANGED nonApplyVars

ApplySpecInit == ApplyInit /\ ReplQuiet /\ KvQuiet /\ BitopQuiet /\ MsetInit

\* applySingleTxn on a replica in step with its leader
ApplySpec == ApplySpecInit /\ [][ApplyNext]_vars

RmwSpecInit == RmwInit /\ ReplQuiet /\ ApplyInit /\ BitopQuiet /\ MsetInit

RmwSpec == RmwSpecInit /\ [][RmwNext]_vars

\* one BITOP on a replica in step with its leader
BitopSpecInit ==
    BitopInit /\ ReplQuiet /\ KvQuiet /\ ApplyInit /\ MsetInit

BitopSpec == BitopSpecInit /\ [][BitopNext]_vars

\* two MSETs on a replica in step with its leader
MsetSpecInit ==
    MsetInit /\ ReplQuiet /\ KvQuiet /\ ApplyInit /\ BitopQuiet

MsetSpec == MsetSpecInit /\ [][MsetNext]_vars

---------------------------------------------------------------------------
(* Claims about the replication state machine, checked under ReplSpec. *)

\* C1: when slaveStartFullsync has returned without completing, whatever
\* the aborting step, the meta is {REPL_CONNECT, MAX_VALID_TXNID+1}.
C1_AbortRestoresConnect ==
    (tick.pc = "exit" /\ tick.fsEnd \notin {"none", "done"}) =>
        /\ syncMeta.replState = REPL_CONNECT
        /\ syncMeta.binlogId = MAX_VALID_TXNID + 1

\* an abort by a bad write after one file was already received, hence after
\* the meta had been moved to TRANSFER
C1_Witness ==
    /\ tick.pc = "exit"
    /\ tick.fsEnd = "write"
    /\ tick.finished # {}

\* C2: after a fullsync that received every file, sent +OK and restarted
\* the store, the meta is {REPL_CONNECTED, the id restart returned}, which
\* is neither TXNID_UNINITED nor the sentinel: the guard left it alone.
C2_DoneIsConnected ==
    (tick.pc = "exit" /\ tick.fsEnd = "done") =>
        /\ tick.okSent
        /\ syncMeta.replState = REPL_CONNECTED
        /\ syncMeta.binlogId = tick.restartId
        /\ syncMeta.binlogId \notin {TXNID_UNINITED, MAX_VALID_TXNID + 1}
        /\ persistMeta = syncMeta

\* a complete fullsync of a two-file list
C2_Witness ==
    /\ tick.pc = "exit"
    /\ tick.fsEnd = "done"
    /\ tick.finished = {"f1", "f2"}

\* C3: the txnIds committed by applySingleTxn are strictly increasing.
C3_AppliedStrictlyIncreasing ==
    \A i, j \in 1..Len(applied) : i < j => applied[i] < applied[j]

\* C4: an applyBinlogs call whose session is not the shard's current one
\* returns ERR_NOTFOUND without committing anything and without changing
\* the meta or the recorded session.
C4_StaleSessionRejected ==
    \A a \in Appliers :
        (appl[a].pc = "guard" /\ appl[a].sessAt # a) =>
            /\ appl[a].ret = "ERR_NOTFOUND"
            /\ appl[a].committed = 0
            /\ Len(applied) = appl[a].appliedAt
            /\ syncMeta = appl[a].metaAt
            /\ persistMeta = appl[a].metaAt
            /\ syncStatus.sessionId = appl[a].sessAt

\* a call with transactions that began while its session was the current
\* one and was overtaken by a tick that recorded a new session
C4_Witness ==
    \E a \in Appliers :
        /\ appl[a].pc = "guard"
        /\ appl[a].startSess = a
        /\ appl[a].sessAt # a
        /\ appl[a].n > 0


---------------------------------------------------------------------------
(* Claims about the command engine, checked under KvSpec. *)

\* every session ran the command op and has replied
AllRan(op) == \A s \in Sessions : ks[s].pc = "done" /\ ks[s].op = op

\* nothing but the sessions' commands touched the store
OnlyCommands == ext = 0 /\ faults = 0

\* C5: when both sessions run SET k v NX (no EX) on a key that started
\* absent and nothing else writes it, exactly one replies +OK, the other
\* replies null bulk, and the stored value is the one of the +OK command.
C5_SetNxOneWinner ==
    ( /\ AllRan("set")
      /\ \A s \in Sessions : ks[s].flags = {REDIS_SET_NX} /\ ~ks[s].exGiven
      /\ kinit["k"] = Absent
      /\ OnlyCommands )
    => \E w \in Sessions :
         /\ ks[w].ret = Ok(fmtOK)
         /\ \A l \in Sessions \ {w} : ks[l].ret = Ok(fmtNull)
         /\ kv["k"].present /\ kv["k"].value = ks[w].val

C5_Witness ==
    /\ AllRan("set")
    /\ \A s \in Sessions : ks[s].flags = {REDIS_SET_NX} /\ ~ks[s].exGiven
    /\ kinit["k"] = Absent /\ OnlyCommands
    /\ ks["s2"].ret = Ok(fmtOK) /\ ks["s1"].ret = Ok(fmtNull)
    /\ kv["k"].value = "b"

\* C6: when both sessions run INCRBY on a key that started absent, the sum
\* of the increments is within the int64 range and nothing else writes the
\* key, both commands succeed and the stored value is the sum.
C6_IncrbySum ==
    ( /\ AllRan("incrby")
      /\ kinit["k"] = Absent
      /\ OnlyCommands
      /\ Stoll(ks["s1"].incr) + Stoll(ks["s2"].incr) \in LLONG_MIN..LLONG_MAX )
    => /\ \A s \in Sessions : ks[s].ret.code = "ERR_OK"
       /\ kv["k"].present
       /\ kv["k"].value = to_string(Stoll(ks["s1"].incr) + Stoll(ks["s2"].incr))
       /\ \E s \in Sessions : ks[s].ret.reply = ":" \o kv["k"].value

C6_Witness ==
    /\ AllRan("incrby") /\ kinit["k"] = Absent /\ OnlyCommands
    /\ ks["s1"].incr = "2" /\ ks["s2"].incr = "-1"
    /\ ks["s1"].ret.reply = ":1"
    /\ kv["k"].value = "1"

\* C7: a GET that runs when the last write of the key is a SET ... EX t
\* that replied +OK at T, at a time >= T + t * 1000, replies null bulk.
C7_ExpiredGetIsNull ==
    \A g \in Sessions :
        (ks[g].pc = "done" /\ ks[g].op = "get" /\ ks[g].after # "none")
            => ks[g].ret = Ok(fmtNull)

\* C8: setGeneric is called at most RETRY_CNT times by one command, always
\* on a transaction no commit was tried on, and a command whose RETRY_CNT
\* attempts all ended in ERR_COMMIT_RETRY returns ERR_COMMIT_RETRY.
C8_RetryBound ==
    \A s \in Sessions :
        /\ ks[s].attempts <= RETRY_CNT
        /\ ks[s].pc \in {"sg_read", "sg_commit"} =>
               ks[s].txn.open /\ ~ks[s].txn.used
        /\ ( /\ ks[s].pc = "done"
             /\ Len(ks[s].errs) = RETRY_CNT
             /\ \A i \in 1..RETRY_CNT : ks[s].errs[i] = "ERR_COMMIT_RETRY" )
           => ks[s].ret = Err("ERR_COMMIT_RETRY")

C8_Witness ==
    \E s \in Sessions :
        /\ ks[s].pc = "done" /\ ks[s].op = "set"
        /\ ks[s].attempts = RETRY_CNT
        /\ ks[s].errs = <<"ERR_COMMIT_RETRY", "ERR_COMMIT_RETRY", "ERR_COMMIT_RETRY">>
        /\ ks[s].ret = Err("ERR_COMMIT_RETRY")

\* C9: an attempt is followed by another one only if it ended in
\* ERR_COMMIT_RETRY; a command whose last attempt ended in any error
\* returns that error, and a command that returns an error has committed
\* nothing.
C9_OnlyCommitRetryRetried ==
    \A s \in Sessions :
        /\ \A i \in 1..Len(ks[s].errs) :
               ks[s].errs[i] # "ERR_COMMIT_RETRY" =>
                   i = Len(ks[s].errs) /\ ks[s].pc = "done"
        /\ ( /\ ks[s].pc = "done" /\ Len(ks[s].errs) > 0
             /\ ks[s].errs[Len(ks[s].errs)] # "ERR_OK" )
           => /\ ks[s].ret = Err(ks[s].errs[Len(ks[s].errs)])
              /\ ks[s].commits = 0

C9_Witness ==
    \E s \in Sessions :
        /\ ks[s].pc = "done" /\ ks[s].op = "incrby"
        /\ ks[s].errs = <<"ERR_COMMIT_RETRY", "ERR_DECODE">>
        /\ ks[s].ret = Err("ERR_DECODE")

---------------------------------------------------------------------------
(* Further claims about replication, checked under ReplSpec. *)

\* no applyBinlogs call is between its session test and its guard
NoApplyInFlight == \A a \in Appliers : appl[a].pc \notin {"apply", "guard"}

C12_ApplyAllOrNothing ==
    /\ atxn.pc \in {"op", "fatal"} => astore = atxn.storeAt
    /\ (atxn.pc = "ret" /\ atxn.ret # "ERR_OK") => astore = atxn.storeAt
    /\ (atxn.pc = "ret" /\ atxn.ret = "ERR_OK") =>
           astore = Mirrored(atxn.storeAt, atxn.txnId, atxn.ops, 1)

C12_Witness ==
    /\ atxn.pc = "ret" /\ atxn.ret = "ERR_OK" /\ atxn.txnId = 2
    /\ Len(atxn.ops) = 2
    /\ atxn.ops[1].op = "REPL_OP_DEL" /\ atxn.ops[2].op = "REPL_OP_SET"
    /\ astore.data["k1"] = NoValue /\ astore.data["k2"] = "w"
    /\ \E r \in astore.binlog : r.txnId = 2 /\ r.seq = 2


---------------------------------------------------------------------------
(* Claims about the read-modify-write commands.                            *)

\* session s ran op, its last attempt was not cut short by a store error
\* or a lost commit, and it returned
Ran(s, op) ==
    /\ ks[s].pc = "done" /\ ks[s].op = op /\ ks[s].errs # <<>>
    /\ ks[s].errs[Len(ks[s].errs)] \notin {"ERR_INTERNAL", "ERR_COMMIT_RETRY"}

\* the record of key k is still the one session s committed
Holds(s, k) == khist[k] = s /\ kv[k].present

C14_CasNeverDecreases ==
    [][\A k \in Keys :
         (kv[k].present /\ kv'[k].present) => kv'[k].cas >= kv[k].cas]_vars


\* the increment a command of the INCR family asks for, as an integer
Delta(r) ==
    CASE r.op = "incr" -> 1
      [] r.op = "decr" -> -1
      [] r.op = "incrby" -> Stoll(r.incr)
      [] r.op = "decrby" -> 0 - Stoll(r.incr)

\* the integer the command read: 0 for an absent key
OldSum(r) == IF r.old.present THEN Stoll(r.old.value) ELSE 0

\* C15: INCR, DECR, INCRBY d and DECRBY d on an absent or integer key either
\* store and reply old + delta, which then lies in the int64 range, or
\* return the overflow error and write nothing; no wrapped value is stored.
C15_ExactOrOverflow ==
    \A s \in Sessions :
      LET r == ks[s]
          k == r.key
          m == OldSum(r) + Delta(r)
      IN  (/\ r.op \in IncrDecrOps /\ Ran(s, r.op)
           /\ r.old.present => StollOk(r.old.value))
          =>
          \/ /\ m \in LLONG_MIN..LLONG_MAX
             /\ r.ret = Ok(fmtLongLong(m))
             /\ Holds(s, k) => kv[k].value = to_string(m)
          \/ /\ r.ret.code = "ERR_OVERFLOW"
             /\ r.commits = 0


\* C16: a GET that follows a plain SET k v which replied +OK, with no write
\* of k in between, replies the bulk string v.
C16_GetAfterSet ==
    \A g \in Sessions :
      (ks[g].pc = "done" /\ ks[g].op = "get" /\ ks[g].last \in Sessions)
        => ks[g].ret = Ok(fmtBulk(ks[ks[g].last].val))


---------------------------------------------------------------------------
(* Further claims about the fullsync.                                      *)

\* the backup directory holds every listed file, and each in full
BackupComplete ==
    /\ tick.finished = DOMAIN tick.flist
    /\ DOMAIN backup.files = DOMAIN tick.flist
    /\ \A n \in DOMAIN tick.flist : backup.files[n] = tick.flist[n]

\* the step in which store->restart(true) is called
RestartCalled ==
    /\ tick.pc = "fs_restart"
    /\ tick' # tick \/ halted' # halted \/ rstore' # rstore

\* C17: "+OK" is written only once every listed file was received once and
\* in its full listed length under backupDir; restart(true) is called only
\* after that "+OK", so never on a backup with a missing or short file.
C17_OkThenRestart ==
    [][/\ (tick'.okSent /\ ~tick.okSent) => BackupComplete
       /\ RestartCalled => (tick.okSent /\ BackupComplete)]_vars

\* "+OK" was written for two files, one of them longer than a batch, and
\* restart is about to be called
C17_Witness ==
    /\ tick.pc = "fs_restart" /\ tick.okSent
    /\ DOMAIN tick.flist = {"f1", "f2"}
    /\ backup.files["f2"] = BATCH_BYTES + 1
    /\ backup.files["f1"] = 0


\* a fullsync attempt that began at time 0 has ended before its end
AbortedAtZero ==
    /\ tick.pc = "fs_ret" /\ tick.fsEnd # "done"
    /\ tick.snap.syncFromHost # ""
    /\ sclock = 0

\* C18: after an aborted fullsync of a shard with a leader, once the store
\* stops cleanly and the leader answers correctly, the shard eventually is
\* CONNECTED.
C18_AbortedThenConnected ==
    AbortedAtZero ~> (syncMeta.replState = REPL_CONNECTED)


\* the scheduler tick is between its start and the release in its guard
TickInBody == tick.pc # "idle"

\* an applyBinlogs call is between its claim and the release in its guard
ApplyInBody(a) == appl[a].pc \in {"claimed", "apply", "guard"}

\* C19: at most one of the scheduler tick and the applyBinlogs calls of the
\* shard is in its body; whoever is in its body holds isRunning = true, so
\* the assertion at each release holds.
C19_OneBodyAtATime ==
    /\ \A a \in Appliers : ~(TickInBody /\ ApplyInBody(a))
    /\ \A a, b \in Appliers : (ApplyInBody(a) /\ ApplyInBody(b)) => a = b
    /\ (TickInBody \/ \E a \in Appliers : ApplyInBody(a))
         => syncStatus.isRunning
    /\ halted => ~(\/ tick.pc = "exit"
                   \/ \E a \in Appliers : appl[a].pc = "guard")

\* a call applies binlogs while another call is blocked on the shard
C19_Witness ==
    /\ tick.pc = "idle"
    /\ \E a, b \in Appliers :
         /\ appl[a].pc = "apply" /\ appl[a].idx = 2
         /\ appl[b].pc = "blocked"


\* a slaveStartFullsync call is executing
FullsyncInProgress ==
    tick.pc \in {"fs_stop", "fs_clear", "fs_client", "fs_req", "fs_parse",
                 "fs_loop", "fs_data", "fs_restart", "fs_ret"}

\* C20: the store is stopped only while a slaveStartFullsync call is
\* executing; with no fullsync in progress, also after one that ended before
\* its end, the store is running.
C20_StoppedOnlyInFullsync == ~FullsyncInProgress => rstore.running


---------------------------------------------------------------------------
(* Claims about setGeneric.                                                *)

\* the record a session's transaction read is there and its ttl is 0 or
\* still ahead of the clock
ReadExists(r) ==
    r.txn.snap.present /\ (r.txn.snap.ttl = 0 \/ now < r.txn.snap.ttl)

\* the record read is there and its ttl has elapsed
ReadElapsed(r) ==
    r.txn.snap.present /\ r.txn.snap.ttl # 0 /\ now >= r.txn.snap.ttl

\* the NX / XX / NXEX gate lets the write through
GateOpen(flags, exists) ==
    /\ ~(REDIS_SET_NX \in flags /\ exists)
    /\ ~(REDIS_SET_XX \in flags /\ ~exists)
    /\ ~(REDIS_SET_NXEX \in flags /\ exists)

\* session s takes the step of setGeneric that reads the key, and the read
\* succeeds
GateStep(s) ==
    /\ ks[s].pc = "sg_read" /\ ks'[s].pc # "sg_read"
    /\ ~(Len(ks'[s].errs) > Len(ks[s].errs)
         /\ ks'[s].errs[Len(ks'[s].errs)] = "ERR_INTERNAL")

\* C21: with a flag, setGeneric goes on to write the new value iff the gate
\* is open for exists = (the key was read and its ttl is 0 or in the
\* future); a write that commits stores the new value and replies okReply.
C21_GateDecidesWrite ==
    [][\A s \in Sessions :
         /\ GateStep(s) =>
              ((ks'[s].pc = "sg_commit" /\ ks'[s].pending = "put")
                 <=> GateOpen(ks[s].flags, ReadExists(ks[s])))
         /\ (/\ ks[s].pc = "sg_commit" /\ ks[s].pending = "put"
             /\ ks[s].flags # REDIS_SET_NO_FLAGS
             /\ ks'[s].commits = ks[s].commits + 1)
              => /\ kv'[ks[s].key] = ks[s].rv
                 /\ ks'[s].pc = "done" /\ ks'[s].ret = Ok(ks[s].okReply)]_vars

\* an NX write is about to overwrite a key whose ttl had elapsed when read
C21_Witness ==
    \E s \in Sessions :
      /\ ks[s].pc = "sg_commit" /\ ks[s].pending = "put"
      /\ REDIS_SET_NX \in ks[s].flags
      /\ ks[s].txn.snap.present /\ ks[s].txn.snap.ttl # 0

\* C22: when the gate closes on a key that was not TTL-elapsed, setGeneric
\* returns abortReply and commits nothing; on a TTL-elapsed key it deletes
\* the key and commits, then returns abortReply, or returns the error of a
\* failed commit instead.
C22_AbortFrame ==
    [][\A s \in Sessions :
         LET r == ks[s]
             q == ks'[s]
         IN  /\ (GateStep(s) /\ ~GateOpen(r.flags, ReadExists(r))) =>
                  IF ReadElapsed(r)
                  THEN q.pc = "sg_commit" /\ q.pending = "del" /\ kv' = kv
                  ELSE /\ kv' = kv /\ khist' = khist
                       /\ q.commits = r.commits
                       /\ q.errs = Append(r.errs, "ERR_OK")
                       /\ q.pc = "done" /\ q.ret = Ok(r.abortReply)
             /\ (r.pc = "sg_commit" /\ r.pending = "del"
                 /\ q.pc # "sg_commit") =>
                  \/ /\ kv'[r.key] = Absent
                     /\ q.commits = r.commits + 1
                     /\ q.pc = "done" /\ q.ret = Ok(r.abortReply)
                  \/ /\ kv' = kv
                     /\ q.commits = r.commits
                     /\ q.errs[Len(q.errs)]
                          \in {"ERR_COMMIT_RETRY", "ERR_INTERNAL"}
                     /\ q.pc = "done" => q.ret.code = q.errs[Len(q.errs)]]_vars

\* an XX that met a TTL-elapsed key has deleted it and replied abortReply
C22_Witness ==
    \E s \in Sessions :
      /\ ks[s].pc = "done" /\ REDIS_SET_XX \in ks[s].flags
      /\ ks[s].commits = 1 /\ ks[s].ret = Ok(ks[s].abortReply)
      /\ kv[ks[s].key] = Absent /\ khist[ks[s].key] = s


---------------------------------------------------------------------------
(* Further claims about the read-modify-write commands.                    *)

\* the commands of the model that are to keep the ttl
TtlKeepers == {"append", "setrange", "incr", "decr", "incrby", "decrby", "cas"}

\* C23: a successful APPEND, SETRANGE, INCR, DECR, INCRBY, DECRBY or
\* matching CAS stores the ttl the key had, 0 for an absent key; GETSET
\* stores ttl 0 and replies the prior value, null for an absent key.
C23_TtlFrame ==
    \A s \in Sessions :
      LET r == ks[s]
          k == r.key
      IN  (r.pc = "done" /\ r.ret.code = "ERR_OK" /\ r.commits > 0) =>
            /\ (r.op \in TtlKeepers /\ Holds(s, k)) =>
                 kv[k].ttl = IF r.old.present THEN r.old.ttl ELSE 0
            /\ r.op = "getset" =>
                 /\ Holds(s, k) => kv[k].ttl = 0
                 /\ r.ret.reply = IF r.old.present THEN fmtBulk(r.old.value)
                                  ELSE fmtNull

RECURSIVE Overlay(_, _, _, _, _)
\* bytes i..n of old zero-padded, with the bytes from off on replaced by v
Overlay(i, n, old, off, v) ==
    IF i > n THEN ""
    ELSE (IF off < i /\ i <= off + Len(v) THEN SubSeq(v, i - off, i - off)
          ELSE IF i <= Len(old) THEN SubSeq(old, i, i)
          ELSE NUL) \o Overlay(i + 1, n, old, off, v)

Max(a, b) == IF a >= b THEN a ELSE b

\* C24: SETRANGE key offset s fails and writes nothing when offset < 0 or
\* offset + |s| is beyond the largest string, offsets of 2^32 and more
\* included; otherwise it stores the old value zero-padded to
\* max(|old|, offset + |s|) with s laid over it at offset.
C24_SetRange ==
    \A s \in Sessions :
      Ran(s, "setrange") =>
        LET r == ks[s]
            k == r.key
            old == IF r.old.present THEN r.old.value ELSE ""
        IN  IF r.offset < 0 \/ r.offset + Len(r.val) > MAX_STRING_SIZE
            THEN r.ret.code \notin {"ERR_OK", "none"} /\ r.commits = 0
            ELSE /\ r.ret.code = "ERR_OK"
                 /\ Holds(s, k) =>
                      kv[k].value =
                        Overlay(1, Max(Len(old), r.offset + Len(r.val)),
                                old, r.offset, r.val)

---------------------------------------------------------------------------
(* Claims about BITOP, checked under BitopSpec.                            *)

\* what a source contributes according to the claim: the empty string when
\* the key was missing or its TTL had elapsed, else its value
Contribution(e) ==
    IF ~e.rec.present \/ (e.rec.ttl # 0 /\ e.at >= e.rec.ttl)
    THEN <<>> ELSE e.rec.value

Contributions == [i \in 1..Len(bop.seen) |-> Contribution(bop.seen[i])]

LongestSource ==
    IF Contributions = <<>> THEN 0
    ELSE CHOOSE m \in { Len(Contributions[i]) : i \in 1..Len(Contributions) } :
           \A i \in 1..Len(Contributions) : Len(Contributions[i]) <= m

\* a source zero-padded to n bytes
ZeroPadded(v, n) == [i \in 1..n |-> IF i <= Len(v) THEN v[i] ELSE 0]

RECURSIVE FoldOfSources(_, _, _)
\* byte i of the AND / OR / XOR of the first n padded sources
FoldOfSources(op, i, n) ==
    LET b == ZeroPadded(Contributions[n], LongestSource)[i]
    IN  IF n = 1 THEN b
        ELSE Bitwise(op, FoldOfSources(op, i, n - 1), b, BYTE_BITS)

ClaimedResult ==
    [i \in 1..LongestSource |->
        IF bop.op = "BITOP_NOT"
        THEN BYTE_MAX - ZeroPadded(Contributions[1], LongestSource)[i]
        ELSE FoldOfSources(bop.op, i, Len(Contributions))]

SomeSourceGone ==
    \E i \in 1..Len(bop.seen) : Contribution(bop.seen[i]) # bop.seen[i].rec.value
                                 \/ ~bop.seen[i].rec.present

\* C25: BITOP reads every missing or TTL-elapsed source as the empty string
\* and completes: with all sources empty the destination is deleted and the
\* reply is 0; otherwise the destination holds, with ttl 0, the fold of the
\* zero-padded sources (the complement for NOT) and the reply is its length.
C25_Bitop ==
    /\ bop.pc # "aborted"
    /\ (bop.pc = "done" /\ bop.ret \notin {"ERR_COMMIT_RETRY", "ERR_INTERNAL"})
         => IF LongestSource = 0
            THEN ~bkv[DestKey].present /\ bop.ret = fmtZero
            ELSE /\ bkv[DestKey] = RecordValue(ClaimedResult, 0)
                 /\ bop.ret = fmtLongLong(LongestSource)

\* a BITOP over a missing or elapsed source and a live one has replied
C25_Witness ==
    /\ bop.pc = "done"
    /\ SomeSourceGone
    /\ bop.maxLen > 0
    /\ bop.ret = fmtLongLong(bop.maxLen)

---------------------------------------------------------------------------
(* Claims about the hand-over of the shard between the tick and the       *)
(* binlog threads.                                                         *)

ShardReleased == syncStatus.isRunning /\ ~syncStatus'.isRunning

SomeoneBlocked == \E a \in Appliers : appl[a].pc = "blocked"

\* C26: every step that takes isRunning from true to false, the exit of a
\* tick or the exit of applyBinlogs, notifies the condition variable: no
\* thread is left blocked in applyBinlogs by it.
C26_ReleaseNotifies ==
    [][ShardReleased => \A a \in Appliers : appl'[a].pc # "blocked"]_vars

---------------------------------------------------------------------------
(* Claims about the durable copy of the replica's meta.                    *)

\* C27: every replState change of the fullsync is written durably before
\* the follower goes on: while the state is TRANSFER the durable meta is
\* {TRANSFER, MAX_VALID_TXNID+1}, and whenever the shard is idle the durable
\* meta equals the one in memory.
C27_MetaPersisted ==
    /\ syncMeta.replState = REPL_TRANSFER => persistMeta = syncMeta
    /\ ~syncStatus.isRunning => persistMeta = syncMeta

---------------------------------------------------------------------------
(* Claims about the backup directory.                                      *)

AtBackupCheck == tick.pc = "fs_parse" /\ tick.replyKind = "flist"

\* C28: whenever slaveStartFullsync reaches the test of the backup
\* directory, the directory does not exist, so the fatal branch of the test
\* is not taken; this holds also for an attempt that follows one which
\* returned after it had written files.
C28_BackupDirAbsent == AtBackupCheck => ~backup.exists

---------------------------------------------------------------------------
(* Claims about slaveChkSyncStatus.                                        *)

InChk == tick.pc \in {"chk_reconn", "chk_client", "chk_pong", "chk_rec"}

SessionRecorded ==
    \/ syncStatus'.sessionId # syncStatus.sessionId
    \/ syncStatus'.lastSyncTime # syncStatus.lastSyncTime

\* the steps before the record have all succeeded: the reply began with
\* '+', and the +PONG was written and the client handed over, which made
\* it the session tick.sid of the network layer
HandshakeDone == tick.replyKind = "plus" /\ tick.sid \in DOMAIN feed

\* C29: slaveChkSyncStatus writes sessionId and lastSyncTime only after the
\* INCRSYNC request was answered with '+', the +PONG was written and the
\* client was handed to the network layer; a call that fails at any of
\* these steps changes neither sessionId nor lastSyncTime, and no call
\* changes syncMeta.
C29_RecordAfterHandshake ==
    [][InChk =>
         /\ syncMeta' = syncMeta
         /\ SessionRecorded =>
               /\ HandshakeDone
               /\ tick'.chkEnd = "done"
               /\ syncStatus'.sessionId = tick.sid
               /\ syncStatus'.lastSyncTime = sclock
         /\ tick'.chkEnd = "done" => HandshakeDone]_vars

\* a call has recorded a new session after a complete handshake
C29_Witness ==
    /\ tick.pc = "chk_ret"
    /\ tick.chkEnd = "done"
    /\ syncStatus.sessionId = tick.sid
    /\ tick.sid # UINT64_MAX

---------------------------------------------------------------------------
(* Claims about the reconnect of a CONNECTED replica.                      *)

NoSession == syncStatus.sessionId = UINT64_MAX

SyncStale == syncStatus.lastSyncTime + RECONN_SECS <= sclock

\* the tick decides in slaveChkSyncStatus whether to reconnect
ReconnDecided == tick.pc = "chk_reconn" /\ tick'.pc # "chk_reconn"

\* an idle CONNECTED replica with a leader whose last sync is 10 s old and
\* whose next tick falls within the time the clock covers
StaleIdle ==
    /\ ~halted
    /\ syncMeta.replState = REPL_CONNECTED
    /\ syncMeta.syncFromHost # ""
    /\ tick.pc = "idle"
    /\ SyncStale
    /\ syncStatus.nextSchedTime <= MaxClock

\* C30: a tick in CONNECTED opens a new INCRSYNC connection exactly when
\* there is no session or lastSyncTime + 10 s <= now, and else does nothing;
\* so a CONNECTED replica with a leader whose lastSyncTime stays 10 s old
\* gets a later tick that attempts the reconnect.
C30_ReconnectWhenStale ==
    /\ [][ReconnDecided =>
            /\ (tick'.pc = "chk_client") <=> (NoSession \/ SyncStale)
            /\ tick'.pc # "chk_client" =>
                  /\ tick'.pc = "chk_ret" /\ tick'.chkEnd = "noreconn"
                  /\ syncStatus' = syncStatus /\ syncMeta' = syncMeta
                  /\ feed' = feed /\ nextSession' = nextSession]_vars
    /\ StaleIdle ~> (tick.pc = "chk_client" \/ ~SyncStale \/ halted)

\* a tick of a replica with a session reconnects because the sync is stale
C30_Witness ==
    /\ tick.pc = "chk_client"
    /\ ~NoSession
    /\ SyncStale

---------------------------------------------------------------------------
(* Claims about the end of applyBinlogs.                                   *)

\* the call of session a has passed the session test and applied its map
AtUpdate(a) == appl[a].pc = "apply" /\ appl[a].idx > appl[a].n

ReturnedOk(a) == appl[a].pc = "guard" /\ appl[a].ret = "ERR_OK"

\* C31: when an accepted applyBinlogs call with a non-empty map returns OK,
\* syncMeta.binlogId is the largest txnId of the map and the durable meta
\* equals it; whenever such a call stands before the update the state is
\* CONNECTED; a call with an empty map leaves the meta as it found it.
C31_UpdateAfterApply ==
    \A a \in Appliers :
        /\ (ReturnedOk(a) /\ appl[a].n > 0) =>
              /\ appl[a].matched
              /\ syncMeta.binlogId = appl[a].base + appl[a].n
              /\ syncMeta = [appl[a].metaAt EXCEPT
                                !.binlogId = appl[a].base + appl[a].n]
              /\ persistMeta = syncMeta
        /\ (AtUpdate(a) /\ appl[a].n > 0) =>
              syncMeta.replState = REPL_CONNECTED
        /\ (ReturnedOk(a) /\ appl[a].n = 0) => syncMeta = appl[a].metaAt

\* a call with two transactions has returned OK
C31_Witness ==
    \E a \in Appliers :
        /\ ReturnedOk(a)
        /\ appl[a].n = MaxBatch
        /\ appl[a].committed = MaxBatch

FailedInLoop(a) == appl[a].pc = "guard" /\ appl[a].ret \in ApplyErrors

\* C32: applyBinlogs applies the map in ascending txnId order and returns at
\* the first error of applySingleTxn, ERR_COMMIT_RETRY included: what it
\* committed is the map's ids below the failing one, in order, nothing
\* above it, and the meta is the one the call found.
C32_StopAtFirstError ==
    \A a \in Appliers :
        /\ FailedInLoop(a) =>
              /\ appl[a].matched
              /\ appl[a].committed = appl[a].idx - 1
              /\ appl[a].committed < appl[a].n
              /\ Len(applied) = appl[a].appliedAt + appl[a].committed
              /\ syncMeta = appl[a].metaAt
        /\ appl[a].pc \in {"apply", "guard"} =>
              \A i \in 1..appl[a].committed :
                  /\ appl[a].appliedAt + i <= Len(applied)
                  /\ applied[appl[a].appliedAt + i] = appl[a].base + i

\* a call of two transactions committed the first and got ERR_COMMIT_RETRY
\* for the second
C32_Witness ==
    \E a \in Appliers :
        /\ appl[a].pc = "guard"
        /\ appl[a].ret = "ERR_COMMIT_RETRY"
        /\ appl[a].committed = 1
        /\ appl[a].n = 2

---------------------------------------------------------------------------
(* Further claims about applySingleTxn, checked under ApplySpec.           *)

\* the operation applySingleTxn is at, or the last one it looked at, has a
\* key or a value that does not decode
DecodeFailed ==
    /\ atxn.i <= Len(atxn.ops)
    /\ \/ ~atxn.ops[atxn.i].keyOk
       \/ atxn.ops[atxn.i].op = "REPL_OP_SET" /\ ~atxn.ops[atxn.i].valOk

\* C33: a record key or record value that does not decode ends the process,
\* as an unknown op does: applySingleTxn never returns a status for it.
C33_DecodeIsFatal ==
    atxn.pc = "ret" => ~(atxn.ret = "ERR_DECODE" /\ DecodeFailed)

---------------------------------------------------------------------------
(* Claims about lastSyncTime.                                              *)

LastSyncMoved == syncStatus'.lastSyncTime # syncStatus.lastSyncTime

\* the step is the exit of an applyBinlogs call that was rejected for its
\* session id
RejectedExit ==
    \E a \in Appliers :
        /\ appl[a].pc = "guard" /\ appl'[a].pc = "idle"
        /\ ~appl[a].matched

AcceptedExit ==
    \E a \in Appliers :
        /\ appl[a].pc = "guard" /\ appl'[a].pc = "idle"
        /\ appl[a].matched

\* C34: lastSyncTime moves only in the record of a successful handshake and
\* at the exit of an applyBinlogs call accepted for the current session; the
\* exit of a call rejected for its session id leaves it as it was.
C34_LastSyncTimeOwners ==
    [][(LastSyncMoved => (tick.pc = "chk_rec" \/ AcceptedExit))
       /\ (RejectedExit => ~LastSyncMoved)]_vars

---------------------------------------------------------------------------
(* Claims about the old value of runGeneral, checked under RmwSpec.        *)

\* session s reads the old value in this step: getKV at the top of a pass
\* of the retry loop
ReadsOld(s) ==
    /\ ks[s].pc = "attempt"
    /\ ks[s].op \in RunGeneralOps
    /\ ks'[s] # ks[s]
    /\ faults' = faults

Elapsed(rec, ts) == rec.present /\ rec.ttl # 0 /\ ts >= rec.ttl

\* C35: the old value runGeneral hands to newValueFromOld is never a record
\* whose ttl has elapsed when it is read, however the clock advances between
\* the expiry check, the lock and the read.
C35_OldValueNotElapsed ==
    [][\A s \in Sessions : ReadsOld(s) => ~Elapsed(ks'[s].old, now)]_vars

---------------------------------------------------------------------------
(* Claims about what a tick finds.                                         *)

\* a step of a tick that found no leader in its snapshot
NoHostStep ==
    \/ tick.pc = "routine" /\ syncMeta.syncFromHost = ""
    \/ tick.pc = "exit" /\ tick.snap.syncFromHost = ""

TickStep == tick' # tick

\* what a tick without a leader may not touch: the meta, the store, the
\* backup, the session, the sessions of the network layer
NoHostFrame ==
    /\ UNCHANGED <<syncMeta, persistMeta, rstore, backup, applied, feed,
                   nextSession>>
    /\ syncStatus'.sessionId = syncStatus.sessionId
    /\ syncStatus'.lastSyncTime = syncStatus.lastSyncTime
    /\ tick'.pc \in {"exit", "idle"}
    /\ ~halted'

StateAtTickOk ==
    (syncMeta.syncFromHost # "" /\ (~syncStatus.isRunning \/ tick.pc = "routine"))
        => syncMeta.replState \in {REPL_CONNECT, REPL_CONNECTED}

\* C36: a tick of a shard with a leader starts in CONNECT or CONNECTED, as
\* does every idle shard with a leader: each return of slaveStartFullsync
\* leaves one of the two before isRunning is released.  A tick of a shard
\* without a leader changes nothing and talks to nobody.
C36_TickFindsConnectOrConnected ==
    /\ []StateAtTickOk
    /\ [][(NoHostStep /\ TickStep) => NoHostFrame]_vars

\* a tick starts after a fullsync that was given up in TRANSFER
C36_Witness ==
    /\ tick.pc = "routine"
    /\ syncMeta.syncFromHost # ""
    /\ syncMeta.replState = REPL_CONNECT
    /\ backup.exists

---------------------------------------------------------------------------
(* Claims about the hand-off of a new incrsync session.                    *)

\* the tick has handed session a to the network layer and has not yet
\* recorded its id
InHandoffWindow(a) == tick.pc = "chk_rec" /\ tick.sid = a

\* the session test of a's call found a session opened after a
Superseded(a) == appl[a].sessAt \in Appliers /\ appl[a].sessAt > a

Tested(a) == appl[a].pc \in {"apply", "guard"}

\* C37: a call of applyBinlogs for a session that was just handed off does
\* not pass the wait while the tick that opened the session still runs, and
\* its session test is never made against an id older than its own: a call
\* is rejected only when a later session has replaced its own.
C37_NoRejectInHandoffWindow ==
    \A a \in Appliers :
        /\ InHandoffWindow(a) => appl[a].pc \in {"idle", "wait", "blocked"}
        /\ (Tested(a) /\ ~appl[a].matched) => Superseded(a)
        /\ (Tested(a) /\ appl[a].matched) => appl[a].sessAt = a

\* a call that began inside the window was accepted
C37_Witness ==
    \E a \in Appliers :
        /\ appl[a].pc = "guard"
        /\ appl[a].matched
        /\ appl[a].startSess # a

---------------------------------------------------------------------------
(* Claims about MSET, checked under MsetSpec.                              *)

\* session s stands at getDbWithKeyLock for a key that session t holds
WaitsFor(s, t) ==
    /\ ms[s].pc = "lock"
    /\ mlock[ms[s].keys[ms[s].i]] = t

\* C38: two MSETs of different sessions over overlapping keys, in any
\* order of the arguments, never block each other for good: no state has
\* each session waiting for a key the other one holds.
C38_NoDeadlock ==
    \A s, t \in Sessions : s # t => ~(WaitsFor(s, t) /\ WaitsFor(t, s))

---------------------------------------------------------------------------
(* Claims about two concurrent CAS, checked under RmwSpec.                 *)

\* both sessions ran CAS k c with the same c, on a key that at the start
\* was absent or had cas c, and both have returned
TwoCasSameExpected(s, t) ==
    /\ ks[s].pc = "done" /\ ks[s].op = "cas"
    /\ ks[t].pc = "done" /\ ks[t].op = "cas"
    /\ ks[s].cas = ks[t].cas
    /\ \A k \in Keys : ~kinit[k].present \/ kinit[k].cas = ks[s].cas

\* C39: of two sessions that run CAS key c v1 and CAS key c v2 at the same
\* time at most one replies +OK, whether the key had cas c or was absent.
C39_OneCasWins ==
    \A s, t \in Sessions :
        (s # t /\ TwoCasSameExpected(s, t)) =>
            ~(ks[s].ret = Ok(fmtOK) /\ ks[t].ret = Ok(fmtOK))

---------------------------------------------------------------------------
(* Claims about binlogId and the replica store.                            *)

\* C40: while a CONNECTED shard is idle, syncMeta.binlogId is not below any
\* txnId that applySingleTxn has committed to the replica store, also after
\* an applyBinlogs call that committed some transactions and then failed.
C40_BinlogIdCoversCommitted ==
    (syncMeta.replState = REPL_CONNECTED /\ ~syncStatus.isRunning) =>
        \A i \in 1..Len(applied) : applied[i] <= syncMeta.binlogId

=============================================================================
